---- MODULE Spec2Model ----
(***************************************************************************)
(* Wisdom Index harvester: the orchestrator HarvesterManager.run_workflow  *)
(* (src/harvester_main.py), the per-descriptor loops of RedditHarvester    *)
(* and WebHarvester (src/harvesters/), and the retrying fetcher            *)
(* BaseHarvester._make_request (src/harvesters/base_harvester.py).         *)
(*                                                                         *)
(* Two specifications:                                                     *)
(*   Spec     a sequence of runs of run_workflow over one history file     *)
(*   SpecReq  one call of _make_request over every outcome sequence        *)
(*                                                                         *)
(* Environment assumptions of Spec: writing a file succeeds (the raw CSV   *)
(* and search_history.json); reading search_history.json may fail at any   *)
(* load (the code's "except Exception: return None" path); every site of   *)
(* the web configuration is a mapping with a name and a url; the history   *)
(* file holds what the program wrote.                                      *)
(***************************************************************************)
EXTENDS Integers, Sequences, FiniteSets, TLC

VARIABLES
    pc,          \* phase of the current run of run_workflow
    prompting,   \* inside _prompt_user_for_guidance's input loop
    run,         \* number of the current run (also the clock of timestamps)
    config,      \* self.config of the current run
    creds,       \* REDDIT_CLIENT_ID and REDDIT_CLIENT_SECRET are both set
    harvesters,  \* self.harvesters: initialized families, in insertion order
    history,     \* the 'searches' list stored in search_history.json
    fileExists,  \* search_history.json exists
    histAtStart, \* history when the current run started
    duplicates,  \* the list _check_for_duplicate_searches returned
    checked,     \* _check_for_duplicate_searches has returned in this run
    choice,      \* the operator's last answer at the prompt, stripped
    results,     \* harvest_all's results dict: family -> list of records
    fam,         \* index in harvesters of the family being harvested
    desc,        \* index of the descriptor being harvested (0: harvest() not entered)
    forum,       \* index of the forum url being fetched in the current web site
    acc,         \* `results` list local to the running harvest()
    siteAcc,     \* `results` list local to the running _harvest_site
    descLog,     \* log of the descriptors harvest() has finished in this run
    failed,      \* families whose harvest() raised in this run
    calls,       \* family -> number of harvest() calls in this run
    rawWrites,   \* families whose raw CSV was written in this run
    ret,         \* what run_workflow returned
    appended,    \* number of records this run appended to the history
    netlog,      \* fetch / throttle events of the current web site
    root,        \* type of the root of the YAML document: "dict", "list", ...
    exitCode,    \* <<>> while the process runs, <<1>> after main's sys.exit(1)
    histLoaded,  \* outcome of the duplicate check's load: "none", "ok" or "failed"
    pastRuns,    \* the earlier runs: for each its configuration and how it ended
    rq_pc,       \* _make_request: position
    retries,     \* _make_request: the retries argument
    attempt,     \* _make_request: loop variable
    response,    \* _make_request: the local variable `response`
    events,      \* _make_request: requests issued and sleeps taken, in order
    err,         \* _make_request: the exception that left the call
    dd_pc,       \* _check_for_duplicate_searches: "idle" or "returned"
    dd_config,   \* _check_for_duplicate_searches: self.config
    dd_store,    \* _check_for_duplicate_searches: the stored 'searches' list
    dd_readOk,   \* _check_for_duplicate_searches: the history could be loaded
    dd_ret,      \* _check_for_duplicate_searches: the returned pair
    wm_pc,       \* WorkflowManager.run_workflow: position
    wm_calls,    \* WorkflowManager: the step methods called, in order
    wm_ret,      \* WorkflowManager.run_workflow: the returned value, if any
    cmp_pc,      \* two runs side by side: "idle" or "done"
    cmp_a,       \* the first run: configuration, credentials, harvest outcomes
    cmp_b,       \* the second run
    cmp_ra,      \* what the first run's run_workflow returned
    cmp_rb,      \* what the second run's run_workflow returned
    cl_pc,       \* a classifier call: "idle" or "done"
    cl_text,     \* the text handed to the classifier: [core, pad]
    cl_keywords, \* the configured keywords
    cl_min,      \* the configured minimum length, <<>> when none is configured
    cl_boost,    \* TRUE for a comment of score >= 10 in a technician subreddit
    cl_fn,       \* the function or record-emitting path that was run
    cl_out,      \* its verdict: [accept, by], by naming the deciding check
    pf_pc,       \* a call of a function under study: "idle" or "done"
    pf_fn,       \* the function called
    pf_in,       \* its arguments and what the network returns to it
    pf_out,      \* what it returned or wrote
    tr_pc,       \* comment expansion: "idle", "running" or "done"
    tr_cfg,      \* its max_depth and child_limit, and the comment tree
    tr_stack,    \* the active calls of _harvest_child_comments, innermost last
    tr_seen      \* the replies examined so far, in order

wfVars == <<pc, prompting, run, config, creds, harvesters, history, fileExists,
            histAtStart, duplicates, checked, choice, results, fam, desc, forum,
            acc, siteAcc, descLog, failed, calls, rawWrites, ret, appended, netlog>>
envVars == <<root, exitCode, histLoaded, pastRuns>>
rqVars == <<rq_pc, retries, attempt, response, events, err>>
ddVars == <<dd_pc, dd_config, dd_store, dd_readOk, dd_ret>>
wmVars == <<wm_pc, wm_calls, wm_ret>>
cmpVars == <<cmp_pc, cmp_a, cmp_b, cmp_ra, cmp_rb>>
clVars == <<cl_pc, cl_text, cl_keywords, cl_min, cl_boost, cl_fn, cl_out>>
pfVars == <<pf_pc, pf_fn, pf_in, pf_out>>
trVars == <<tr_pc, tr_cfg, tr_stack, tr_seen>>
auxVars == <<ddVars, wmVars, cmpVars, clVars, pfVars, trVars>>
vars == <<wfVars, envVars, rqVars, auxVars>>

(***************************************************************************)
(* Bounds                                                                  *)
(***************************************************************************)
MaxRuns == 2
MaxRecs == 1
MaxRetries == 3

(***************************************************************************)
(* Helpers                                                                 *)
(***************************************************************************)
Range(s) == {s[i] : i \in DOMAIN s}

RECURSIVE Flatten(_)
Flatten(ss) == IF ss = <<>> THEN <<>> ELSE Head(ss) \o Flatten(Tail(ss))

IsPrefix(s, t) == Len(s) <= Len(t) /\ SubSeq(t, 1, Len(s)) = s

Max(a, b) == IF a >= b THEN a ELSE b

Last(s) == s[Len(s)]

EmptyDict == [f \in {} |-> <<>>]

RECURSIVE SumLen(_, _)
SumLen(d, keys) ==
    IF keys = {} THEN 0
    ELSE LET k == CHOOSE x \in keys : TRUE
         IN Len(d[k]) + SumLen(d, keys \ {k})

(***************************************************************************)
(* Configurations (the YAML document read by _load_config)                 *)
(***************************************************************************)
SiteA == [name |-> "s1", forums |-> 1]
SiteB == [name |-> "s2", forums |-> 2]
SiteC == [name |-> "s3", forums |-> 1]
SiteD == [name |-> "s4", forums |-> 1]

CfgReddit == [sources |-> {"reddit"}, subreddits |-> <<"a", "b", "c">>,
              sites |-> <<>>, keywords |-> <<"k1">>]
CfgWeb    == [sources |-> {"web", "github"}, subreddits |-> <<>>,
              sites |-> <<SiteA, SiteC, SiteD>>, keywords |-> <<>>]
CfgBoth   == [sources |-> {"reddit", "web"}, subreddits |-> <<"a">>,
              sites |-> <<SiteB>>, keywords |-> <<"k2">>]
CfgStub   == [sources |-> {"github", "medium"}, subreddits |-> <<>>,
              sites |-> <<>>, keywords |-> <<>>]

\* no family with a descriptor list, keywords only
CfgKw     == [sources |-> {"github"}, subreddits |-> <<>>,
              sites |-> <<>>, keywords |-> <<"k1", "k2">>]

Configs == {CfgReddit, CfgWeb, CfgBoth, CfgStub, CfgKw}

\* what yaml.safe_load can return: a mapping, a list, a scalar, or None for an
\* empty document; self.config is the record `config` when the root is a mapping
Roots == {"dict", "list", "scalar", "none"}

\* isinstance(self.config, dict), and whether self.config has a .get method
is_dict_mut(r) == r \in {"dict", "list"}

is_dict(r) == r = "dict"

\* the order of the `if sources.get(...)` blocks of _initialize_harvesters
FamilyOrder == <<"reddit", "github", "stackexchange", "medium", "youtube",
                 "podcasts", "web">>

\* families whose harvest() walks a descriptor list
LoopFamilies == {"reddit", "web"}

Descriptors(cfg, f) ==
    IF f = "reddit" THEN cfg.subreddits
    ELSE IF f = "web" THEN [i \in DOMAIN cfg.sites |-> cfg.sites[i].name]
    ELSE <<>>

(***************************************************************************)
(* HarvesterManager._initialize_harvesters, RedditHarvester.__init__       *)
(***************************************************************************)
\* mutant: RedditHarvester is constructed without its credentials
init_ok_mut(f, cr) == TRUE

\* the constructor of family f returns: RedditHarvester.__init__ raises when
\* REDDIT_CLIENT_ID or REDDIT_CLIENT_SECRET is not set
init_ok(f, cr) == f # "reddit" \/ cr

initialize_harvesters(cfg, cr) ==
    SelectSeq(FamilyOrder, LAMBDA f : f \in cfg.sources /\ init_ok(f, cr))

(***************************************************************************)
(* HarvesterManager._extract_current_search_config                         *)
(***************************************************************************)
RecordedPlatforms == <<"reddit", "web", "github", "stackexchange">>

extract_current_search_config(cfg, now) ==
    LET platforms == SelectSeq(RecordedPlatforms, LAMBDA p : p \in cfg.sources)
    IN [platforms |-> platforms,
        sources   |-> [p \in Range(platforms) |->
                         IF p = "reddit" THEN [subreddits |-> cfg.subreddits]
                         ELSE IF p = "web" THEN [sites |-> cfg.sites]
                         ELSE IF p = "github" THEN [repos |-> <<>>]
                         ELSE [sites |-> <<>>]],
        keywords  |-> cfg.keywords,
        industry_modifiers |-> <<>>,
        timestamp |-> now]

(***************************************************************************)
(* HarvesterManager._is_duplicate_search                                   *)
(***************************************************************************)
\* mutant: the threshold is exclusive
overlap_at_least_mut(a, b, num) ==
    /\ a # {}
    /\ b # {}
    /\ 10 * Cardinality(a \cap b) > num * Max(Cardinality(a), Cardinality(b))

\* len(overlap) / max(len(a), len(b)) >= num/10, for non-empty a and b
overlap_at_least(a, b, num) ==
    /\ a # {}
    /\ b # {}
    /\ 10 * Cardinality(a \cap b) >= num * Max(Cardinality(a), Cardinality(b))

\* the string literals that occur in str(previous)
StrLiterals(previous) ==
    DOMAIN previous
    \cup (IF "keywords" \in DOMAIN previous THEN Range(previous.keywords) ELSE {})
    \cup (IF "subreddits" \in DOMAIN previous THEN Range(previous.subreddits) ELSE {})
    \cup (IF "platforms" \in DOMAIN previous THEN Range(previous.platforms) ELSE {})
    \cup (IF "sources" \in DOMAIN previous
          THEN UNION {DOMAIN previous.sources[p] : p \in DOMAIN previous.sources}
               \cup (IF "reddit" \in DOMAIN previous.sources
                     THEN Range(previous.sources["reddit"].subreddits) ELSE {})
               \cup (IF "web" \in DOMAIN previous.sources
                     THEN {"name", "forums"}
                          \cup {s.name : s \in Range(previous.sources["web"].sites)}
                     ELSE {})
          ELSE {})

\* `site in str(previous)`: the empty name is a substring of every string
in_str(site, previous) == site = "" \/ site \in StrLiterals(previous)

\* lines 169-190: the subreddit sets compared, new format first, then legacy
subreddit_overlap(current, previous) ==
    LET onReddit == "reddit" \in Range(current.platforms)
        newFmt   == "sources" \in DOMAIN previous
                    /\ "reddit" \in DOMAIN previous.sources
    IN IF onReddit /\ newFmt
       THEN overlap_at_least(Range(current.sources["reddit"].subreddits),
                             Range(previous.sources["reddit"].subreddits), 7)
       ELSE IF "subreddits" \in DOMAIN previous /\ onReddit
       THEN overlap_at_least(Range(current.sources["reddit"].subreddits),
                             Range(previous.subreddits), 7)
       ELSE FALSE

\* mutant: web sites are never compared
web_site_match_mut(current, previous) == FALSE

\* lines 192-197: some current site name occurs in str(previous)
web_site_match(current, previous) ==
    /\ "web" \in Range(current.platforms)
    /\ \E s \in Range(current.sources["web"].sites) : in_str(s.name, previous)

\* mutant: keywords are compared with the subreddit threshold
keyword_overlap_mut(current, previous) ==
    /\ "keywords" \in DOMAIN previous
    /\ overlap_at_least(Range(current.keywords), Range(previous.keywords), 7)

\* lines 199-208
keyword_overlap(current, previous) ==
    /\ "keywords" \in DOMAIN previous
    /\ overlap_at_least(Range(current.keywords), Range(previous.keywords), 8)

is_duplicate_search(current, previous) ==
    \/ subreddit_overlap(current, previous)
    \/ web_site_match(current, previous)
    \/ keyword_overlap(current, previous)

(***************************************************************************)
(* HarvesterManager._load_search_history: None is modelled as <<FALSE, _>> *)
(***************************************************************************)
load_search_history(exists, readOk, stored) ==
    IF exists /\ readOk THEN [ok |-> TRUE, searches |-> stored]
    ELSE [ok |-> FALSE, searches |-> <<>>]

\* the outcomes a load can have: a missing file never loads
ReadOutcomes(exists) == IF exists THEN BOOLEAN ELSE {FALSE}

(***************************************************************************)
(* HarvesterManager._check_for_duplicate_searches                          *)
(***************************************************************************)
\* mutant: only the first overlapping run is returned
check_for_duplicate_searches_mut(cfg, now, loaded) ==
    LET all == IF ~loaded.ok THEN <<>>
               ELSE SelectSeq(loaded.searches,
                       LAMBDA s : is_duplicate_search(extract_current_search_config(cfg, now), s))
    IN IF all = <<>> THEN <<>> ELSE <<Head(all)>>

check_for_duplicate_searches(cfg, now, loaded) ==
    IF ~loaded.ok THEN <<>>
    ELSE SelectSeq(loaded.searches,
                   LAMBDA s : is_duplicate_search(extract_current_search_config(cfg, now), s))

\* mutant: a single overlapping run is not reported
has_duplicates_mut(dups) == Len(dups) > 1

has_duplicates(dups) == Len(dups) > 0

(***************************************************************************)
(* HarvesterManager._prompt_user_for_guidance                              *)
(***************************************************************************)
RawInputs == {<<"1">>, <<" ", "1", " ">>, <<"2">>, <<"3", " ">>, <<"4">>,
              <<>>, <<"1", "2">>, <<"y">>}

RECURSIVE lstrip(_)
lstrip(s) == IF s # <<>> /\ Head(s) = " " THEN lstrip(Tail(s)) ELSE s

RECURSIVE rstrip(_)
rstrip(s) == IF s # <<>> /\ s[Len(s)] = " " THEN rstrip(SubSeq(s, 1, Len(s) - 1)) ELSE s

\* str.strip()
strip(s) == rstrip(lstrip(s))

\* mutant: the answer 2 proceeds
prompt_decision_mut(c) ==
    IF c = <<"1">> THEN "proceed"
    ELSE IF c = <<"2">> THEN "proceed"
    ELSE IF c = <<"3">> THEN "abort"
    ELSE "again"

prompt_decision(c) ==
    IF c = <<"1">> THEN "proceed"
    ELSE IF c = <<"2">> THEN "abort"
    ELSE IF c = <<"3">> THEN "abort"
    ELSE "again"

(***************************************************************************)
(* HarvesterManager._save_search_history                                   *)
(***************************************************************************)
\* mutant: families are counted instead of records
total_results_mut(res) == Cardinality(DOMAIN res)

total_results(res) == SumLen(res, DOMAIN res)

save_search_history(cfg, now, loaded, res) ==
    Append(loaded.searches,
           [f \in DOMAIN extract_current_search_config(cfg, now) \cup {"results_count"} |->
              IF f = "results_count" THEN total_results(res)
              ELSE extract_current_search_config(cfg, now)[f]])

(***************************************************************************)
(* Records and per-descriptor outcomes                                     *)
(***************************************************************************)
\* the k records one descriptor (one forum page, for web) contributed
Records(site, name, page, k) ==
    [i \in 1..k |-> [site |-> site, subreddit |-> name, item |-> <<page, i>>]]

\* what harvesting one descriptor (one forum page) can do: raise, or return n records
DescOutcomes ==
    {[raise |-> TRUE, n |-> 0]} \cup {[raise |-> FALSE, n |-> k] : k \in 0..MaxRecs}

Put(d, k, v) == [x \in DOMAIN d \cup {k} |-> IF x = k THEN v ELSE d[x]]

NoCalls == [f \in Range(FamilyOrder) |-> 0]

NoRet == [returned |-> FALSE, value |-> EmptyDict]

(***************************************************************************)
(* HarvesterManager.harvest_all and the harvest() loops                    *)
(***************************************************************************)
\* mutant: the loop stops one family early
all_harvested_mut(i, hs) == i >= Len(hs)

\* `for platform, harvester in self.harvesters.items()` has run out
all_harvested(i, hs) == i > Len(hs)

\* mutant: a failing family is left out of the result
on_family_error_mut(res, f) == res

\* harvest_all's `except Exception: results[platform] = []`
on_family_error(res, f) == Put(res, f, <<>>)

\* mutant: a failing descriptor discards what was collected before it
on_descriptor_error_mut(collected) == <<>>

\* the per-descriptor `except Exception: ... continue` of harvest()
on_descriptor_error(collected) == collected

\* the per-forum `except Exception: ... continue` of _harvest_site
on_forum_error(collected) == collected

\* save_raw_data: the platforms whose results list is non-empty get a file
save_raw_data(res) == {f \in DOMAIN res : res[f] # <<>>}

(***************************************************************************)
(* One run of HarvesterManager.run_workflow                                *)
(***************************************************************************)
\* the environments worth telling apart: the Reddit credentials are read only when
\* reddit is enabled
CredsOf(cfg) == IF "reddit" \in cfg.sources THEN BOOLEAN ELSE {TRUE}

rqIdle ==
    /\ rq_pc = "idle"
    /\ retries = 0
    /\ attempt = 0
    /\ response = [kind |-> "unbound", status |-> 0, retry_after |-> <<>>]
    /\ events = <<>>
    /\ err = "none"

\* no call of _check_for_duplicate_searches under study
ddIdle ==
    /\ dd_pc = "idle"
    /\ dd_config = CfgStub
    /\ dd_store = <<>>
    /\ dd_readOk = FALSE
    /\ dd_ret = [has_duplicates |-> FALSE, duplicates |-> <<>>]

\* no WorkflowManager under study
wmIdle ==
    /\ wm_pc = "idle"
    /\ wm_calls = <<>>
    /\ wm_ret = <<>>

\* what happened to a family in a run, and the number of records it returned
Status(kind, n) == [kind |-> kind, n |-> n]

\* no pair of runs under study
cmpIdle ==
    /\ cmp_pc = "idle"
    /\ cmp_a = [f \in {} |-> Status("disabled", 0)]
    /\ cmp_b = [f \in {} |-> Status("disabled", 0)]
    /\ cmp_ra = EmptyDict
    /\ cmp_rb = EmptyDict

\* no classifier call under study
clIdle ==
    /\ cl_pc = "idle"
    /\ cl_text = [core |-> <<>>, pad |-> 0]
    /\ cl_keywords = <<>>
    /\ cl_min = <<>>
    /\ cl_boost = FALSE
    /\ cl_fn = "none"
    /\ cl_out = [accept |-> FALSE, by |-> "none"]

\* no function call under study
pfIdle ==
    /\ pf_pc = "idle"
    /\ pf_fn = "none"
    /\ pf_in = <<>>
    /\ pf_out = <<>>

\* no comment expansion under study
trIdle ==
    /\ tr_pc = "idle"
    /\ tr_cfg = <<>>
    /\ tr_stack = <<>>
    /\ tr_seen = <<>>

auxIdle == ddIdle /\ wmIdle /\ cmpIdle /\ clIdle /\ pfIdle /\ trIdle

\* the state after the program was started for the first time
wfInit ==
    /\ pc = "Idle"
    /\ prompting = FALSE
    /\ run = 1
    /\ config \in Configs
    /\ creds \in CredsOf(config)
    /\ harvesters = <<>>
    /\ history = <<>>
    /\ fileExists = FALSE
    /\ histAtStart = <<>>
    /\ duplicates = <<>>
    /\ checked = FALSE
    /\ choice = <<>>
    /\ results = EmptyDict
    /\ fam = 1
    /\ desc = 0
    /\ forum = 0
    /\ acc = <<>>
    /\ siteAcc = <<>>
    /\ descLog = <<>>
    /\ failed = {}
    /\ calls = NoCalls
    /\ rawWrites = {}
    /\ ret = NoRet
    /\ appended = 0
    /\ netlog = <<>>
    /\ root \in Roots
    /\ exitCode = <<>>
    /\ histLoaded = "none"
    /\ pastRuns = <<>>

Init ==
    /\ wfInit
    /\ rqIdle
    /\ auxIdle

\* HarvesterManager(config_path) followed by the entry of run_workflow
Construct ==
    /\ pc = "Idle"
    /\ exitCode = <<>>
    /\ is_dict(root)
    /\ harvesters' = initialize_harvesters(config, creds)
    /\ pc' = "CheckingDuplicates"
    /\ UNCHANGED <<prompting, run, config, creds, history, fileExists, histAtStart,
                   duplicates, checked, choice, results, fam, desc, forum, acc,
                   siteAcc, descLog, failed, calls, rawWrites, ret, appended, netlog>>
    /\ UNCHANGED <<envVars, rqVars, auxVars>>

\* HarvesterManager(config_path) raises: self.config.get of _initialize_harvesters
\* does not exist on a root that is not a dict; main logs it and exits with 1
ConstructFails ==
    /\ pc = "Idle"
    /\ exitCode = <<>>
    /\ ~is_dict(root)
    /\ exitCode' = <<1>>
    /\ UNCHANGED <<wfVars, root, histLoaded, pastRuns>>
    /\ UNCHANGED <<rqVars, auxVars>>

\* Step 0: _check_for_duplicate_searches and the `if has_duplicates` branch
CheckDuplicates ==
    /\ pc = "CheckingDuplicates"
    /\ ~checked
    /\ \E readOk \in ReadOutcomes(fileExists) :
         LET dups == check_for_duplicate_searches(
                         config, run, load_search_history(fileExists, readOk, history))
         IN /\ duplicates' = dups
            /\ prompting' = has_duplicates(dups)
            /\ pc' = IF has_duplicates(dups) THEN "CheckingDuplicates" ELSE "Harvesting"
            /\ histLoaded' = IF fileExists /\ readOk THEN "ok" ELSE "failed"
    /\ checked' = TRUE
    /\ UNCHANGED <<run, config, creds, harvesters, history, fileExists, histAtStart,
                   choice, results, fam, desc, forum, acc, siteAcc, descLog, failed,
                   calls, rawWrites, ret, appended, netlog>>
    /\ UNCHANGED <<root, exitCode, pastRuns>>
    /\ UNCHANGED <<rqVars, auxVars>>

\* one turn of the `while True: choice = input(...).strip()` loop
Prompt ==
    /\ pc = "CheckingDuplicates"
    /\ prompting
    /\ \E raw \in RawInputs :
         /\ choice' = strip(raw)
         /\ pc' = CASE prompt_decision(strip(raw)) = "proceed" -> "Harvesting"
                    [] prompt_decision(strip(raw)) = "abort"   -> "Aborted"
                    [] OTHER                                   -> "CheckingDuplicates"
         /\ prompting' = (prompt_decision(strip(raw)) = "again")
         /\ ret' = IF prompt_decision(strip(raw)) = "abort"
                   THEN [returned |-> TRUE, value |-> EmptyDict]
                   ELSE ret
    /\ UNCHANGED <<run, config, creds, harvesters, history, fileExists, histAtStart,
                   duplicates, checked, results, fam, desc, forum, acc, siteAcc,
                   descLog, failed, calls, rawWrites, appended, netlog>>
    /\ UNCHANGED <<envVars, rqVars, auxVars>>

\* harvest_all: harvest() of a family without a descriptor loop returns []
HarvestStub ==
    /\ pc = "Harvesting"
    /\ ~all_harvested(fam, harvesters)
    /\ desc = 0
    /\ harvesters[fam] \notin LoopFamilies
    /\ calls' = [calls EXCEPT ![harvesters[fam]] = @ + 1]
    /\ results' = Put(results, harvesters[fam], <<>>)
    /\ fam' = fam + 1
    /\ UNCHANGED <<pc, prompting, run, config, creds, harvesters, history,
                   fileExists, histAtStart, duplicates, checked, choice, desc, forum,
                   acc, siteAcc, descLog, failed, rawWrites, ret, appended, netlog>>
    /\ UNCHANGED <<envVars, rqVars, auxVars>>

\* harvest_all: harvest() raises (its outer `except: raise HarvesterError`)
HarvestRaises ==
    /\ pc = "Harvesting"
    /\ ~all_harvested(fam, harvesters)
    /\ desc = 0
    /\ harvesters[fam] \in LoopFamilies
    /\ calls' = [calls EXCEPT ![harvesters[fam]] = @ + 1]
    /\ results' = on_family_error(results, harvesters[fam])
    /\ failed' = failed \cup {harvesters[fam]}
    /\ fam' = fam + 1
    /\ UNCHANGED <<pc, prompting, run, config, creds, harvesters, history,
                   fileExists, histAtStart, duplicates, checked, choice, desc, forum,
                   acc, siteAcc, descLog, rawWrites, ret, appended, netlog>>
    /\ UNCHANGED <<envVars, rqVars, auxVars>>

\* harvest_all: harvest() is entered and reaches its descriptor loop
HarvestEnter ==
    /\ pc = "Harvesting"
    /\ ~all_harvested(fam, harvesters)
    /\ desc = 0
    /\ harvesters[fam] \in LoopFamilies
    /\ calls' = [calls EXCEPT ![harvesters[fam]] = @ + 1]
    /\ IF Descriptors(config, harvesters[fam]) = <<>>
       THEN /\ results' = Put(results, harvesters[fam], <<>>)
            /\ fam' = fam + 1
            /\ desc' = 0
       ELSE /\ results' = results
            /\ fam' = fam
            /\ desc' = 1
    /\ acc' = <<>>
    /\ UNCHANGED <<pc, prompting, run, config, creds, harvesters, history,
                   fileExists, histAtStart, duplicates, checked, choice, forum,
                   siteAcc, descLog, failed, rawWrites, ret, appended, netlog>>
    /\ UNCHANGED <<envVars, rqVars, auxVars>>

\* one finished descriptor: whether its harvest raised into harvest()'s loop, how
\* many of its pages were fetched and how many of those fetches failed, and the
\* records it contributed
LogEntry(f, d, raised, pages, failedPages, recs) ==
    [f |-> f, d |-> d, raised |-> raised, pages |-> pages,
     failedPages |-> failedPages, recs |-> recs]

\* fetches of a site's log that no throttle follows: _harvest_forum_page raised
FailedFetches(log) ==
    Cardinality({i \in DOMAIN log : log[i] = "fetch"})
    - Cardinality({i \in DOMAIN log : log[i] = "throttle"})

\* the end of one iteration of harvest()'s descriptor loop; after the last
\* descriptor harvest() returns and harvest_all stores the list
finish_descriptor(f, collected, entry) ==
    /\ descLog' = Append(descLog, entry)
    /\ IF desc = Len(Descriptors(config, f))
       THEN /\ results' = Put(results, f, collected)
            /\ fam' = fam + 1
            /\ desc' = 0
            /\ acc' = <<>>
       ELSE /\ results' = results
            /\ fam' = fam
            /\ desc' = desc + 1
            /\ acc' = collected

\* RedditHarvester.harvest: one subreddit
RedditSubreddit ==
    /\ pc = "Harvesting"
    /\ ~all_harvested(fam, harvesters)
    /\ desc >= 1
    /\ harvesters[fam] = "reddit"
    /\ \E o \in DescOutcomes :
         finish_descriptor("reddit",
            IF o.raise THEN on_descriptor_error(acc)
            ELSE acc \o Records("reddit", config.subreddits[desc], 0, o.n),
            LogEntry("reddit", config.subreddits[desc], o.raise, 0, 0,
                     Records("reddit", config.subreddits[desc], 0, o.n)))
    /\ UNCHANGED <<pc, prompting, run, config, creds, harvesters, history,
                   fileExists, histAtStart, duplicates, checked, choice, forum,
                   siteAcc, failed, calls, rawWrites, ret, appended, netlog>>
    /\ UNCHANGED <<envVars, rqVars, auxVars>>

\* WebHarvester.harvest: _harvest_site raises before its forum loop
WebSiteRaises ==
    /\ pc = "Harvesting"
    /\ ~all_harvested(fam, harvesters)
    /\ desc >= 1
    /\ forum = 0
    /\ harvesters[fam] = "web"
    /\ finish_descriptor("web", on_descriptor_error(acc),
                          LogEntry("web", config.sites[desc].name, TRUE, 0, 0, <<>>))
    /\ UNCHANGED <<pc, prompting, run, config, creds, harvesters, history,
                   fileExists, histAtStart, duplicates, checked, choice, forum,
                   siteAcc, failed, calls, rawWrites, ret, appended, netlog>>
    /\ UNCHANGED <<envVars, rqVars, auxVars>>

\* WebHarvester.harvest: _harvest_site reaches its forum loop
WebSiteEnter ==
    /\ pc = "Harvesting"
    /\ ~all_harvested(fam, harvesters)
    /\ desc >= 1
    /\ forum = 0
    /\ harvesters[fam] = "web"
    /\ forum' = 1
    /\ siteAcc' = <<>>
    /\ netlog' = <<>>
    /\ UNCHANGED <<pc, prompting, run, config, creds, harvesters, history,
                   fileExists, histAtStart, duplicates, checked, choice, results,
                   fam, desc, acc, descLog, failed, calls, rawWrites, ret, appended>>
    /\ UNCHANGED <<envVars, rqVars, auxVars>>

\* WebHarvester._harvest_site: one forum url (_harvest_forum_page, then _throttle)
WebForum ==
    /\ pc = "Harvesting"
    /\ ~all_harvested(fam, harvesters)
    /\ desc >= 1
    /\ forum >= 1
    /\ harvesters[fam] = "web"
    /\ \E o \in DescOutcomes :
         LET got == IF o.raise THEN on_forum_error(siteAcc)
                    ELSE siteAcc \o Records("web", config.sites[desc].name, forum, o.n)
             log == IF o.raise THEN netlog \o <<"fetch">>
                    ELSE netlog \o <<"fetch", "throttle">>
         IN IF forum = config.sites[desc].forums
            THEN /\ finish_descriptor("web", acc \o got,
                        LogEntry("web", config.sites[desc].name, FALSE, forum,
                                 FailedFetches(log), got))
                 /\ forum' = 0
                 /\ siteAcc' = <<>>
                 /\ netlog' = log
            ELSE /\ forum' = forum + 1
                 /\ siteAcc' = got
                 /\ netlog' = log
                 /\ UNCHANGED <<results, fam, desc, acc, descLog>>
    /\ UNCHANGED <<pc, prompting, run, config, creds, harvesters, history,
                   fileExists, histAtStart, duplicates, checked, choice, failed,
                   calls, rawWrites, ret, appended>>
    /\ UNCHANGED <<envVars, rqVars, auxVars>>

\* harvest_all returns
HarvestAllReturn ==
    /\ pc = "Harvesting"
    /\ all_harvested(fam, harvesters)
    /\ pc' = "Aggregating"
    /\ UNCHANGED <<prompting, run, config, creds, harvesters, history, fileExists,
                   histAtStart, duplicates, checked, choice, results, fam, desc,
                   forum, acc, siteAcc, descLog, failed, calls, rawWrites, ret,
                   appended, netlog>>
    /\ UNCHANGED <<envVars, rqVars, auxVars>>

\* Step 2: save_raw_data
SaveRawData ==
    /\ pc = "Aggregating"
    /\ rawWrites' = save_raw_data(results)
    /\ pc' = "PersistingLog"
    /\ UNCHANGED <<prompting, run, config, creds, harvesters, history, fileExists,
                   histAtStart, duplicates, checked, choice, results, fam, desc,
                   forum, acc, siteAcc, descLog, failed, calls, ret, appended,
                   netlog>>
    /\ UNCHANGED <<envVars, rqVars, auxVars>>

\* Step 3: _save_search_history, then `return results`
SaveSearchHistory ==
    /\ pc = "PersistingLog"
    /\ \E readOk \in ReadOutcomes(fileExists) :
         history' = save_search_history(
                       config, run, load_search_history(fileExists, readOk, history),
                       results)
    /\ fileExists' = TRUE
    /\ appended' = appended + 1
    /\ ret' = [returned |-> TRUE, value |-> results]
    /\ pc' = "Done"
    /\ UNCHANGED <<prompting, run, config, creds, harvesters, histAtStart,
                   duplicates, checked, choice, results, fam, desc, forum, acc,
                   siteAcc, descLog, failed, calls, rawWrites, netlog>>
    /\ UNCHANGED <<envVars, rqVars, auxVars>>

\* a new process: new configuration and environment, the same history file
start_run ==
    /\ run < MaxRuns
    /\ run' = run + 1
    /\ config' \in Configs
    /\ creds' \in CredsOf(config')
    /\ pc' = "Idle"
    /\ prompting' = FALSE
    /\ harvesters' = <<>>
    /\ histAtStart' = history
    /\ duplicates' = <<>>
    /\ checked' = FALSE
    /\ choice' = <<>>
    /\ results' = EmptyDict
    /\ fam' = 1
    /\ desc' = 0
    /\ forum' = 0
    /\ acc' = <<>>
    /\ siteAcc' = <<>>
    /\ descLog' = <<>>
    /\ failed' = {}
    /\ calls' = NoCalls
    /\ rawWrites' = {}
    /\ ret' = NoRet
    /\ appended' = 0
    /\ netlog' = <<>>
    /\ root' \in Roots
    /\ exitCode' = <<>>
    /\ histLoaded' = "none"
    /\ pastRuns' = Append(pastRuns, [config |-> config, root |-> root, ended |-> pc])
    /\ UNCHANGED <<history, fileExists>>

\* the operator starts the program again
NewRun ==
    /\ pc \in {"Done", "Aborted"} \/ exitCode # <<>>
    /\ start_run
    /\ UNCHANGED <<rqVars, auxVars>>

Next ==
    \/ Construct
    \/ ConstructFails
    \/ CheckDuplicates
    \/ Prompt
    \/ HarvestStub
    \/ HarvestRaises
    \/ HarvestEnter
    \/ RedditSubreddit
    \/ WebSiteRaises
    \/ WebSiteEnter
    \/ WebForum
    \/ HarvestAllReturn
    \/ SaveRawData
    \/ SaveSearchHistory
    \/ NewRun

Spec == Init /\ [][Next]_vars

\* the program is one sequential process: it takes its next step whenever it has one
SpecFair == Spec /\ WF_vars(Next)

(***************************************************************************)
(* WorkflowManager.run_workflow (src/workflow.py, specification SpecWm):   *)
(* step_1_harvest runs a HarvesterManager, the actions above               *)
(***************************************************************************)
\* what a step method can return: True (done or skipped) or False
StepOutcomes == BOOLEAN

\* step_1_harvest after manager.run_workflow() returned `value`: the total is
\* logged and True is returned, whatever the value
step_1_result(value) == TRUE

InitWm ==
    /\ wfInit
    /\ rqIdle
    /\ pfIdle
    /\ trIdle
    /\ ddIdle
    /\ cmpIdle
    /\ clIdle
    /\ wm_pc = "step1"
    /\ wm_calls = <<"step_1_harvest">>
    /\ wm_ret = <<>>

\* the `if not self.step_N():` of run_workflow for a step that returned ok
after_step(ok, nxt, name) ==
    IF ok
    THEN /\ wm_pc' = nxt
         /\ wm_calls' = IF name = "" THEN wm_calls ELSE Append(wm_calls, name)
         /\ wm_ret' = IF nxt = "completed" THEN <<TRUE>> ELSE wm_ret
    ELSE /\ wm_pc' = "failed"
         /\ wm_calls' = wm_calls
         /\ wm_ret' = <<FALSE>>

\* step_1_harvest: HarvesterManager.run_workflow has returned
Step1Returns ==
    /\ wm_pc = "step1"
    /\ ret.returned
    /\ after_step(step_1_result(ret.value), "step2", "step_2_filter")
    /\ UNCHANGED <<wfVars, envVars, rqVars, ddVars, cmpVars, clVars, pfVars, trVars>>

\* step_1_harvest: HarvesterManager(config_path) raises, `except Exception: return False`
Step1Raises ==
    /\ wm_pc = "step1"
    /\ pc = "Idle"
    /\ after_step(FALSE, "step2", "step_2_filter")
    /\ UNCHANGED <<wfVars, envVars, rqVars, ddVars, cmpVars, clVars, pfVars, trVars>>

\* step_2_filter returns
Step2Filter ==
    /\ wm_pc = "step2"
    /\ \E ok \in StepOutcomes : after_step(ok, "step3", "step_3_transform")
    /\ UNCHANGED <<wfVars, envVars, rqVars, ddVars, cmpVars, clVars, pfVars, trVars>>

\* step_3_transform returns
Step3Transform ==
    /\ wm_pc = "step3"
    /\ \E ok \in StepOutcomes : after_step(ok, "completed", "")
    /\ UNCHANGED <<wfVars, envVars, rqVars, ddVars, cmpVars, clVars, pfVars, trVars>>

\* workflow.py is started again
WmRestart ==
    /\ wm_pc \in {"failed", "completed"}
    /\ start_run
    /\ wm_pc' = "step1"
    /\ wm_calls' = <<"step_1_harvest">>
    /\ wm_ret' = <<>>
    /\ UNCHANGED <<rqVars, ddVars, cmpVars, clVars, pfVars, trVars>>

\* the HarvesterManager runs inside step_1_harvest
InStep1 == wm_pc = "step1"

NextWm ==
    \/ InStep1 /\ Construct
    \/ InStep1 /\ CheckDuplicates
    \/ InStep1 /\ Prompt
    \/ InStep1 /\ HarvestStub
    \/ InStep1 /\ HarvestRaises
    \/ InStep1 /\ HarvestEnter
    \/ InStep1 /\ RedditSubreddit
    \/ InStep1 /\ WebSiteRaises
    \/ InStep1 /\ WebSiteEnter
    \/ InStep1 /\ WebForum
    \/ InStep1 /\ HarvestAllReturn
    \/ InStep1 /\ SaveRawData
    \/ InStep1 /\ SaveSearchHistory
    \/ Step1Returns
    \/ Step1Raises
    \/ Step2Filter
    \/ Step3Transform
    \/ WmRestart

SpecWm == InitWm /\ [][NextWm]_vars

(***************************************************************************)
(* BaseHarvester._make_request                                             *)
(***************************************************************************)
DefaultRetryAfter == 60

Statuses == {200, 404, 429, 503}

Unbound == [kind |-> "unbound", status |-> 0, retry_after |-> <<>>]

\* what one requests.get + raise_for_status can do: a response with a status
\* (a 429 with or without a Retry-After header), a Timeout, a ConnectionError,
\* or another RequestException raised before any response was received
ReqOutcomes ==
    {[kind |-> k, status |-> 0, retry_after |-> <<>>] :
        k \in {"timeout", "connerr", "reqexc"}}
    \cup {[kind |-> "response", status |-> s, retry_after |-> <<>>] : s \in Statuses}
    \cup {[kind |-> "response", status |-> 429, retry_after |-> <<30>>]}

\* Response.raise_for_status raises HTTPError for a 4xx or 5xx status
raises_for_status(status) == status >= 400 /\ status < 600

\* mutant: a 503 is treated as a rate limit too
is_rate_limited_mut(status) == status \in {429, 503}

\* `if response.status_code == 429`
is_rate_limited(status) == status = 429

\* int(response.headers.get('Retry-After', 60))
retry_after_secs(resp) ==
    IF resp.retry_after = <<>> THEN DefaultRetryAfter ELSE resp.retry_after[1]

\* mutant: linear instead of exponential backoff
backoff_mut(k) == 2 * k

\* time.sleep(2 ** attempt)
backoff(k) == 2 ^ k

\* `if attempt == retries - 1`
is_last_attempt(k, n) == k = n - 1

Request(o) == [ev |-> "request", o |-> o, secs |-> 0]

Sleep(n) == [ev |-> "sleep", o |-> Unbound, secs |-> n]

\* mutant: the loop runs one iteration too many
loop_step_mut(k, n) ==
    IF k + 1 < n + 1
    THEN /\ attempt' = k + 1
         /\ rq_pc' = "loop"
         /\ err' = err
    ELSE /\ attempt' = k + 1
         /\ rq_pc' = "raised"
         /\ err' = "HarvesterError"

\* the next iteration of `for attempt in range(retries)`, or line 109 after the loop
loop_step(k, n) ==
    IF k + 1 < n
    THEN /\ attempt' = k + 1
         /\ rq_pc' = "loop"
         /\ err' = err
    ELSE /\ attempt' = k + 1
         /\ rq_pc' = "raised"
         /\ err' = "HarvesterError"

rq_raise(e) ==
    /\ rq_pc' = "raised"
    /\ err' = e
    /\ attempt' = attempt

\* no run of run_workflow under study
wfIdle ==
    /\ pc = "Idle"
    /\ prompting = FALSE
    /\ run = 1
    /\ config = CfgStub
    /\ creds = TRUE
    /\ harvesters = <<>>
    /\ history = <<>>
    /\ fileExists = FALSE
    /\ histAtStart = <<>>
    /\ duplicates = <<>>
    /\ checked = FALSE
    /\ choice = <<>>
    /\ results = EmptyDict
    /\ fam = 1
    /\ desc = 0
    /\ forum = 0
    /\ acc = <<>>
    /\ siteAcc = <<>>
    /\ descLog = <<>>
    /\ failed = {}
    /\ calls = NoCalls
    /\ rawWrites = {}
    /\ ret = NoRet
    /\ appended = 0
    /\ netlog = <<>>
    /\ root = "dict"
    /\ exitCode = <<>>
    /\ histLoaded = "none"
    /\ pastRuns = <<>>

InitReq ==
    /\ wfIdle
    /\ rqIdle
    /\ auxIdle

\* the call: `for attempt in range(retries)` is entered, or falls through at once
MakeRequestCall ==
    /\ rq_pc = "idle"
    /\ \E n \in 0..MaxRetries :
         /\ retries' = n
         /\ rq_pc' = IF n = 0 THEN "raised" ELSE "loop"
         /\ err' = IF n = 0 THEN "HarvesterError" ELSE "none"
    /\ attempt' = 0
    /\ UNCHANGED <<response, events>>
    /\ UNCHANGED <<wfVars, envVars, auxVars>>

\* lines 82-84: the response passes raise_for_status and is returned
AttemptReturns ==
    /\ rq_pc = "loop"
    /\ \E o \in ReqOutcomes :
         /\ o.kind = "response"
         /\ ~raises_for_status(o.status)
         /\ response' = o
         /\ events' = Append(events, Request(o))
    /\ rq_pc' = "returned"
    /\ UNCHANGED <<retries, attempt, err>>
    /\ UNCHANGED <<wfVars, envVars, auxVars>>

\* lines 86-94 and 105-107: Timeout or ConnectionError
AttemptTransportFailure ==
    /\ rq_pc = "loop"
    /\ \E o \in ReqOutcomes :
         /\ o.kind \in {"timeout", "connerr"}
         /\ IF is_last_attempt(attempt, retries)
            THEN /\ events' = Append(events, Request(o))
                 /\ rq_raise("HarvesterError")
            ELSE /\ events' = events \o <<Request(o), Sleep(backoff(attempt))>>
                 /\ loop_step(attempt, retries)
    /\ UNCHANGED <<retries, response>>
    /\ UNCHANGED <<wfVars, envVars, auxVars>>

\* lines 96-103: `except RequestException`, entered by the HTTPError of
\* raise_for_status (response is this attempt's) or by an exception of
\* requests.get (response still holds what an earlier attempt bound, if any)
AttemptRequestException ==
    /\ rq_pc = "loop"
    /\ \E o \in ReqOutcomes :
         /\ \/ o.kind = "response" /\ raises_for_status(o.status)
            \/ o.kind = "reqexc"
         /\ response' = IF o.kind = "response" THEN o ELSE response
         /\ IF response' = Unbound
            THEN /\ events' = Append(events, Request(o))
                 /\ rq_raise("UnboundLocalError")
            ELSE IF is_rate_limited(response'.status)
            THEN /\ events' = events \o <<Request(o), Sleep(retry_after_secs(response'))>>
                 /\ loop_step(attempt, retries)
            ELSE /\ events' = Append(events, Request(o))
                 /\ rq_raise("HarvesterError")
    /\ UNCHANGED retries
    /\ UNCHANGED <<wfVars, envVars, auxVars>>

NextReq ==
    \/ MakeRequestCall
    \/ AttemptReturns
    \/ AttemptTransportFailure
    \/ AttemptRequestException

SpecReq == InitReq /\ [][NextReq]_vars

\* _make_request is sequential code: a call that can take a step takes it
SpecReqFair == SpecReq /\ WF_vars(NextReq)

\* projections of the event log
Outcomes == [i \in 1..Cardinality({j \in DOMAIN events : events[j].ev = "request"}) |->
               SelectSeq(events, LAMBDA e : e.ev = "request")[i].o]

Sleeps == [i \in 1..Cardinality({j \in DOMAIN events : events[j].ev = "sleep"}) |->
             SelectSeq(events, LAMBDA e : e.ev = "sleep")[i].secs]

IsTransportFailure(o) == o.kind \in {"timeout", "connerr"}

IsSuccess(o) == o.kind = "response" /\ o.status >= 200 /\ o.status < 300

(***************************************************************************)
(* HarvesterManager._check_for_duplicate_searches over configurations and  *)
(* stored histories (specification SpecDup)                                *)
(***************************************************************************)
MaxNames == 10
MaxHist == 3

SubNames == <<"a", "b", "c", "d", "e", "f", "g", "h", "i", "j", "k", "l">>
KwNames  == <<"k1", "k2", "k3", "k4", "k5", "k6", "k7", "k8", "k9", "k10",
              "k11", "k12">>
OtherSubs == <<"x1", "x2">>
OtherKws  == <<"y1", "y2">>

\* sizes of the current run's subreddit and keyword lists
CurSizes == {0, 2, MaxNames}

\* the configuration of the run being started
DupConfigs ==
    {[sources |-> src,
      subreddits |-> IF "reddit" \in src THEN SubSeq(SubNames, 1, n) ELSE <<>>,
      sites |-> IF "web" \in src THEN st ELSE <<>>,
      keywords |-> SubSeq(KwNames, 1, m)] :
        src \in {{"reddit"}, {"web"}, {"reddit", "web"}, {"github"}},
        n \in CurSizes, m \in CurSizes,
        st \in {<<SiteA>>, <<SiteA, SiteC, SiteD>>}}

\* configurations of earlier runs: i of the names above and e others
PastConfigs ==
    {[sources |-> src,
      subreddits |-> IF "reddit" \in src
                     THEN SubSeq(SubNames, 1, i) \o SubSeq(OtherSubs, 1, e) ELSE <<>>,
      sites |-> IF "web" \in src THEN st ELSE <<>>,
      keywords |-> SubSeq(KwNames, 1, j) \o SubSeq(OtherKws, 1, e)] :
        src \in {{"reddit"}, {"web"}, {"reddit", "web"}},
        i \in {0, 1, 2, MaxNames - 4, MaxNames - 3, MaxNames},
        j \in {0, 2, MaxNames - 3, MaxNames - 2, MaxNames},
        e \in 0..1,
        st \in {<<SiteA>>, <<SiteB>>}}

\* the record a run with configuration cfg left in the history
RecordOf(cfg) == Last(save_search_history(cfg, 0, load_search_history(FALSE, FALSE, <<>>),
                                          EmptyDict))

\* a record in the format of earlier versions of the program
LegacyRecord(subs, kws) ==
    [timestamp |-> 0, subreddits |-> subs, keywords |-> kws, results_count |-> 0]

LegacyRecords ==
    {LegacyRecord(SubSeq(SubNames, 1, i) \o SubSeq(OtherSubs, 1, e), SubSeq(KwNames, 1, j)) :
        i \in {0, 1, 2, MaxNames - 4, MaxNames - 3, MaxNames}, e \in 0..1,
        j \in {0, 2, MaxNames - 2}}

PastRecords == {RecordOf(c) : c \in PastConfigs} \cup LegacyRecords

\* records of which longer histories are made
FewRecords ==
    {RecordOf([sources |-> {"reddit"}, subreddits |-> SubSeq(SubNames, 1, 2),
               sites |-> <<>>, keywords |-> <<"y1">>]),
     RecordOf([sources |-> {"web"}, subreddits |-> <<>>,
               sites |-> <<SiteB>>, keywords |-> SubSeq(KwNames, 1, 2)]),
     LegacyRecord(<<"x1">>, <<"y2">>)}

RECURSIVE SeqsUpTo(_, _)
SeqsUpTo(S, n) ==
    IF n = 0 THEN {<<>>}
    ELSE SeqsUpTo(S, n - 1)
         \cup {Append(q, x) : q \in {t \in SeqsUpTo(S, n - 1) : Len(t) = n - 1}, x \in S}

DupHistories == {<<r>> : r \in PastRecords} \cup SeqsUpTo(FewRecords, MaxHist)

InitDup ==
    /\ wfIdle
    /\ rqIdle
    /\ pfIdle
    /\ trIdle
    /\ wmIdle
    /\ cmpIdle
    /\ clIdle
    /\ dd_pc = "idle"
    /\ dd_config \in DupConfigs
    /\ dd_store \in DupHistories
    /\ dd_readOk = FALSE
    /\ dd_ret = [has_duplicates |-> FALSE, duplicates |-> <<>>]

\* one call of _check_for_duplicate_searches
CheckForDuplicateSearches ==
    /\ dd_pc = "idle"
    /\ \E readOk \in ReadOutcomes(TRUE) :
         /\ dd_readOk' = readOk
         /\ dd_ret' =
              [has_duplicates |->
                  has_duplicates(check_for_duplicate_searches(
                      dd_config, 1, load_search_history(TRUE, readOk, dd_store))),
               duplicates |->
                  check_for_duplicate_searches(
                      dd_config, 1, load_search_history(TRUE, readOk, dd_store))]
    /\ dd_pc' = "returned"
    /\ UNCHANGED <<dd_config, dd_store>>
    /\ UNCHANGED <<wfVars, envVars, rqVars, wmVars, cmpVars, clVars, pfVars, trVars>>

NextDup == CheckForDuplicateSearches

SpecDup == InitDup /\ [][NextDup]_vars

(***************************************************************************)
(* Two runs of HarvesterManager side by side (specification SpecCmp)       *)
(***************************************************************************)
CmpFamilies == {"reddit", "web", "github"}

\* what can happen to a family in a run: it is disabled, its constructor raises for
\* want of credentials (reddit), its harvest() raises, or harvest() returns records
FamilyStatuses(f) ==
    {Status("disabled", 0)}
    \cup (IF f = "reddit" THEN {Status("no_credentials", 0)} ELSE {})
    \cup (IF f \in LoopFamilies
          THEN {Status("raise", 0)} \cup {Status("returns", n) : n \in 0..MaxRecs}
          ELSE {Status("returns", 0)})

Scenarios ==
    {sc \in [CmpFamilies -> UNION {FamilyStatuses(f) : f \in CmpFamilies}] :
        \A f \in CmpFamilies : sc[f] \in FamilyStatuses(f)}

\* the configuration and the environment of a scenario
ConfigOf(sc) ==
    [sources |-> {f \in CmpFamilies : sc[f].kind # "disabled"},
     subreddits |-> <<"a">>, sites |-> <<SiteA>>, keywords |-> <<>>]

CredsIn(sc) == sc["reddit"].kind # "no_credentials"

\* one iteration of harvest_all's loop
harvest_family(res, f, status) ==
    IF status.kind = "raise" THEN on_family_error(res, f)
    ELSE Put(res, f, Records(f, "a", 0, status.n))

RECURSIVE harvest_all_from(_, _, _)
harvest_all_from(hs, sc, res) ==
    IF hs = <<>> THEN res
    ELSE harvest_all_from(Tail(hs), sc, harvest_family(res, Head(hs), sc[Head(hs)]))

\* what run_workflow returns in a run that is not declined
harvest_all(sc) ==
    harvest_all_from(initialize_harvesters(ConfigOf(sc), CredsIn(sc)), sc, EmptyDict)

\* main's summary: one `platform: n items` line for each key of the result
summary(res) == [f \in DOMAIN res |-> Len(res[f])]

InitCmp ==
    /\ wfIdle
    /\ rqIdle
    /\ pfIdle
    /\ trIdle
    /\ ddIdle
    /\ wmIdle
    /\ clIdle
    /\ cmp_pc = "idle"
    /\ cmp_a \in Scenarios
    /\ cmp_b \in {sc \in Scenarios :
                    Cardinality({f \in CmpFamilies : sc[f] # cmp_a[f]}) = 1}
    /\ cmp_ra = EmptyDict
    /\ cmp_rb = EmptyDict

\* both runs are carried out
RunBoth ==
    /\ cmp_pc = "idle"
    /\ cmp_ra' = harvest_all(cmp_a)
    /\ cmp_rb' = harvest_all(cmp_b)
    /\ cmp_pc' = "done"
    /\ UNCHANGED <<cmp_a, cmp_b>>
    /\ UNCHANGED <<wfVars, envVars, rqVars, ddVars, wmVars, clVars, pfVars, trVars>>

NextCmp == RunBoth

SpecCmp == InitCmp /\ [][NextCmp]_vars

(***************************************************************************)
(* The text classifiers (specification SpecCls)                            *)
(*                                                                         *)
(* A string is a sequence of one-character strings.  A text is a record    *)
(* [core, pad]: the string core followed by pad characters of filler, a    *)
(* space and then full stops, which no keyword, phrase or pattern of the   *)
(* code contains; searches therefore look at core, lengths count both.     *)
(***************************************************************************)
MaxWords == 3

W_hvac == <<"h", "v", "a", "c">>
W_HVAC == <<"H", "V", "A", "C">>
W_Tip == <<"T", "i", "p">>
W_tip == <<"t", "i", "p">>
W_tips == <<"t", "i", "p", "s">>
W_personal == <<"p", "e", "r", "s", "o", "n", "a", "l">>
W_strategy == <<"s", "t", "r", "a", "t", "e", "g", "y">>
W_process == <<"p", "r", "o", "c", "e", "s", "s">>
W_valve == <<"v", "a", "l", "v", "e">>

Vocabulary == {W_hvac, W_Tip, W_tips, W_personal, W_strategy, W_process, W_valve}

\* str.lower(), character by character
lower_char(c) ==
    CASE c = "A" -> "a"
      [] c = "C" -> "c"
      [] c = "H" -> "h"
      [] c = "T" -> "t"
      [] c = "V" -> "v"
      [] OTHER -> c

lower(s) == [i \in DOMAIN s |-> lower_char(s[i])]

\* str.replace(c, r) for a character c and a string r
RECURSIVE replace(_, _, _)
replace(s, c, r) ==
    IF s = <<>> THEN <<>>
    ELSE (IF Head(s) = c THEN r ELSE <<Head(s)>>) \o replace(Tail(s), c, r)

\* p occupies positions i .. i + Len(p) - 1 of s
occurs_at(p, s, i) ==
    /\ i + Len(p) - 1 <= Len(s)
    /\ \A j \in 1..Len(p) : s[i + j - 1] = p[j]

\* Python's `p in s`
contains(s, p) == \E i \in 1..(Len(s) - Len(p) + 1) : occurs_at(p, s, i)

\* \w of the regular expressions, over the characters of the model
is_word_char(c) == c \notin {" ", ".", "-"}

\* re.search(r'\b(p)\b', s) for a phrase p that starts and ends with a letter
word_search(s, p) ==
    \E i \in 1..(Len(s) - Len(p) + 1) :
        /\ occurs_at(p, s, i)
        /\ (i = 1 \/ ~is_word_char(s[i - 1]))
        /\ (i + Len(p) > Len(s) \/ ~is_word_char(s[i + Len(p)]))

\* the words of a text joined by single spaces
RECURSIVE join(_)
join(ws) ==
    IF ws = <<>> THEN <<>>
    ELSE IF Len(ws) = 1 THEN Head(ws)
    ELSE Head(ws) \o <<" ">> \o join(Tail(ws))

\* len(text) and `not text`
text_len(t) == Len(t.core) + t.pad
text_empty(t) == text_len(t) = 0

Verdict(accept, by) == [accept |-> accept, by |-> by]

\* the alternatives of each tacit_patterns list that a text over Vocabulary
\* can match: `tip` is in every list, `strategy` in all but BaseHarvester's
BasePatterns == {W_tip}
ScriptPatterns == {W_tip, W_strategy}

\* keyword_variants of BaseHarvester._contains_tacit_knowledge
keyword_variants(k) ==
    {lower(k), replace(lower(k), "_", <<" ">>), replace(lower(k), "_", <<>>),
     replace(lower(k), "_", <<"-">>)}

\* BaseHarvester._contains_tacit_knowledge: a configured keyword found in the
\* text accepts it at once; otherwise a tacit pattern decides
base_contains_tacit_knowledge(t, keywords) ==
    IF text_empty(t) THEN Verdict(FALSE, "empty")
    ELSE IF /\ keywords # <<>>
            /\ \E i \in DOMAIN keywords :
                  \E v \in keyword_variants(keywords[i]) : contains(lower(t.core), v)
         THEN Verdict(TRUE, "keyword")
    ELSE Verdict(\E p \in BasePatterns : word_search(lower(t.core), p), "pattern")

\* the defaults of the configurable limits
DefaultCommentMinEnhanced == 30
DefaultCommentMaxEnhanced == 2500
DefaultCommentMin == 120
DefaultCommentMax == 1200
DefaultMinContentLength == 50

\* harvest_config.get(key, default)
config_get(min, default) == IF min = <<>> THEN default ELSE min[1]

\* RedditHarvester._process_post on the content `title selftext`
process_post(t, keywords) == base_contains_tacit_knowledge(t, keywords)

\* RedditHarvester._should_process_comment then _process_comment, for a comment
\* whose author, score and body pass the other tests
process_comment_enhanced(t, keywords, min) ==
    IF text_len(t) < config_get(min, DefaultCommentMinEnhanced) THEN Verdict(FALSE, "length")
    ELSE IF text_len(t) > DefaultCommentMaxEnhanced THEN Verdict(FALSE, "length")
    ELSE base_contains_tacit_knowledge(t, keywords)

\* RedditHarvester._harvest_comments: the length window, then tacit knowledge
\* or a technician subreddit comment of score >= 10
harvest_comment(t, keywords, min, boost) ==
    IF \/ text_len(t) < config_get(min, DefaultCommentMin)
       \/ text_len(t) > DefaultCommentMax
    THEN Verdict(FALSE, "length")
    ELSE IF base_contains_tacit_knowledge(t, keywords).accept
         THEN base_contains_tacit_knowledge(t, keywords)
    ELSE Verdict(boost, "technician")

\* WebHarvester._harvest_forum_page on the content of one thread
web_thread(t, keywords, min) ==
    IF text_len(t) < config_get(min, DefaultMinContentLength) THEN Verdict(FALSE, "length")
    ELSE base_contains_tacit_knowledge(t, keywords)

\* WebHarvester._extract_contractortalk_content on the content of one thread
contractortalk_thread(t, keywords) ==
    IF ~base_contains_tacit_knowledge(t, keywords).accept
    THEN base_contains_tacit_knowledge(t, keywords)
    ELSE IF text_len(t) > DefaultMinContentLength
         THEN base_contains_tacit_knowledge(t, keywords)
    ELSE Verdict(FALSE, "length")

\* the entries of the lists of filter_quality.py and filter_quality_devto.py that
\* a text over Vocabulary can contain; pm_indicators lists "strategy" twice
ObviousPhrases == {W_personal}
PromisingIndicators == <<W_tip, W_strategy>>
PmIndicators == <<W_strategy, W_process, W_strategy>>
MinQualityLength == 50
MinDevtoLength == 150
MinIndicators == 1
MinPmIndicators == 3

\* sum(1 for indicator in indicators if indicator in text_lower)
indicator_count(indicators, s) ==
    Cardinality({i \in DOMAIN indicators : contains(s, indicators[i])})

has_obvious_phrase(s) == \E phrase \in ObviousPhrases : contains(s, phrase)

is_high_quality_content_mut(t) ==
    IF text_empty(t) \/ text_len(t) < MinQualityLength THEN Verdict(FALSE, "length")
    ELSE IF indicator_count(PromisingIndicators, lower(t.core)) >= MinIndicators
         THEN Verdict(TRUE, "indicators")
    ELSE Verdict(FALSE, "rejection")

\* filter_quality.is_high_quality_content
is_high_quality_content(t) ==
    IF text_empty(t) \/ text_len(t) < MinQualityLength THEN Verdict(FALSE, "length")
    ELSE IF has_obvious_phrase(lower(t.core)) THEN Verdict(FALSE, "rejection")
    ELSE Verdict(indicator_count(PromisingIndicators, lower(t.core)) >= MinIndicators,
                 "indicators")

\* filter_quality_devto.is_high_quality_devto_content
is_high_quality_devto_content(t) ==
    IF text_empty(t) \/ text_len(t) < MinDevtoLength THEN Verdict(FALSE, "length")
    ELSE IF has_obvious_phrase(lower(t.core)) THEN Verdict(FALSE, "rejection")
    ELSE Verdict(indicator_count(PmIndicators, lower(t.core)) >= MinPmIndicators,
                 "indicators")

\* has_keyword and has_tacit_pattern of the harvest scripts
has_keyword(s, search_keywords) ==
    \E i \in DOMAIN search_keywords : contains(s, lower(search_keywords[i]))

has_tacit_pattern(s) == \E p \in ScriptPatterns : word_search(s, p)

usenet_contains_tacit_knowledge_mut(t, search_keywords) ==
    Verdict(has_keyword(lower(t.core), search_keywords) \/ has_tacit_pattern(lower(t.core)),
            "keyword_and_pattern")

\* harvest_usenet._contains_tacit_knowledge
usenet_contains_tacit_knowledge(t, search_keywords) ==
    Verdict(has_keyword(lower(t.core), search_keywords) /\ has_tacit_pattern(lower(t.core)),
            "keyword_and_pattern")

\* harvest_podcasts._contains_tacit_knowledge
podcasts_contains_tacit_knowledge(t, search_keywords) ==
    Verdict(has_keyword(lower(t.core), search_keywords) /\ has_tacit_pattern(lower(t.core)),
            "keyword_and_pattern")

\* harvest_transcript_services._contains_tacit_knowledge
transcripts_contains_tacit_knowledge(t, search_keywords) ==
    Verdict(has_keyword(lower(t.core), search_keywords) /\ has_tacit_pattern(lower(t.core)),
            "keyword_and_pattern")

\* the texts, keyword lists and configured minimum lengths under study
Cores == {join(ws) : ws \in SeqsUpTo(Vocabulary, MaxWords)}
Pads == {0, 40, 150}
Texts == {[core |-> c, pad |-> p] : c \in Cores, p \in Pads}
KeywordLists == {<<>>, <<W_HVAC>>, <<W_tip>>}
ConfiguredMins == {<<>>, <<60>>}

InitCls ==
    /\ wfIdle
    /\ rqIdle
    /\ pfIdle
    /\ trIdle
    /\ ddIdle
    /\ wmIdle
    /\ cmpIdle
    /\ cl_pc = "idle"
    /\ cl_text \in Texts
    /\ cl_keywords \in KeywordLists
    /\ cl_min = <<>>
    /\ cl_boost = FALSE
    /\ cl_fn = "none"
    /\ cl_out = Verdict(FALSE, "none")

\* the call fn, made under the configured minimum min, gave the verdict out
classified(fn, min, boost, out) ==
    /\ cl_pc = "idle"
    /\ cl_fn' = fn
    /\ cl_min' = min
    /\ cl_boost' = boost
    /\ cl_out' = out
    /\ cl_pc' = "done"
    /\ UNCHANGED <<cl_text, cl_keywords>>
    /\ UNCHANGED <<wfVars, envVars, rqVars, ddVars, wmVars, cmpVars, pfVars, trVars>>

ProcessPost ==
    classified("_process_post", <<>>, FALSE, process_post(cl_text, cl_keywords))

ProcessCommentEnhanced ==
    \E min \in ConfiguredMins :
        classified("_process_comment", min, FALSE,
                   process_comment_enhanced(cl_text, cl_keywords, min))

HarvestComment ==
    \E min \in ConfiguredMins, boost \in BOOLEAN :
        classified("_harvest_comments", min, boost,
                   harvest_comment(cl_text, cl_keywords, min, boost))

WebThread ==
    \E min \in ConfiguredMins :
        classified("_harvest_forum_page", min, FALSE,
                   web_thread(cl_text, cl_keywords, min))

ContractortalkThread ==
    classified("_extract_contractortalk_content", <<>>, FALSE,
               contractortalk_thread(cl_text, cl_keywords))

IsHighQualityContent ==
    classified("is_high_quality_content", <<>>, FALSE, is_high_quality_content(cl_text))

IsHighQualityDevtoContent ==
    classified("is_high_quality_devto_content", <<>>, FALSE,
               is_high_quality_devto_content(cl_text))

UsenetContainsTacitKnowledge ==
    classified("harvest_usenet", <<>>, FALSE,
               usenet_contains_tacit_knowledge(cl_text, cl_keywords))

PodcastsContainsTacitKnowledge ==
    classified("harvest_podcasts", <<>>, FALSE,
               podcasts_contains_tacit_knowledge(cl_text, cl_keywords))

TranscriptsContainsTacitKnowledge ==
    classified("harvest_transcript_services", <<>>, FALSE,
               transcripts_contains_tacit_knowledge(cl_text, cl_keywords))

NextCls ==
    \/ ProcessPost
    \/ ProcessCommentEnhanced
    \/ HarvestComment
    \/ WebThread
    \/ ContractortalkThread
    \/ IsHighQualityContent
    \/ IsHighQualityDevtoContent
    \/ UsenetContainsTacitKnowledge
    \/ PodcastsContainsTacitKnowledge
    \/ TranscriptsContainsTacitKnowledge

SpecCls == InitCls /\ [][NextCls]_vars

(***************************************************************************)
(* Writing records to CSV (specification SpecCsv): _save_results of        *)
(* src/harvesters/base_harvester.py and write_csv of                       *)
(* src/scripts/legacy/harvesternew.py.  A record is a function from its    *)
(* keys to values; a written file is its header and its rows.              *)
(***************************************************************************)
MaxRows == 2

\* the 19 columns of the Wisdom Index schema
SCHEMA ==
    <<"description", "rationale", "use_case", "impact_area", "transferability_score",
      "actionability_rating", "evidence_strength", "type_(form)", "tag_(application)",
      "unique?", "role", "function", "company", "industry", "country", "date",
      "source_(interview_#/_name)", "link", "notes">>

\* the keys of the dicts built by _process_post, _process_comment,
\* _harvest_comments and _harvest_forum_page
HarvesterKeys ==
    <<"site", "subreddit", "title", "description", "author", "score", "url",
      "created_utc", "num_comments", "source_(interview_#/_name)", "link", "notes">>

HarvesterRecord(site, text) ==
    [k \in Range(HarvesterKeys) |->
        IF k = "site" THEN site ELSE IF k = "description" THEN text ELSE "v"]

HarvesterRecords == {HarvesterRecord(site, text) : site \in {"reddit", "web"},
                                                   text \in {"", "t1", "t2"}}

\* rows handed to the legacy writer: with every column, with a few, with one more
LegacyRow(keys, text) == [k \in keys |-> IF k = "description" THEN text ELSE "v"]

LegacyRows ==
    {LegacyRow(keys, text) :
        keys \in {Range(SCHEMA), {"description", "link", "notes"},
                  Range(SCHEMA) \cup {"score"}},
        text \in {"", "t1", "t2"}}

\* dict.keys() in insertion order, for the records above
keys_of(r) ==
    IF DOMAIN r = Range(HarvesterKeys) THEN HarvesterKeys
    ELSE SelectSeq(SCHEMA \o <<"score">>, LAMBDA k : k \in DOMAIN r)

\* csv.DictWriter.writerow: a key outside fieldnames raises ValueError, a
\* missing one is written as the empty string
dict_to_row(fieldnames, r) ==
    [i \in DOMAIN fieldnames |->
        IF fieldnames[i] \in DOMAIN r THEN r[fieldnames[i]] ELSE ""]

NoFile == [written |-> FALSE, raised |-> FALSE, header |-> <<>>, rows |-> <<>>]

\* DictWriter(f, fieldnames).writeheader(); writerows(rows)
dict_writer(fieldnames, rows) ==
    IF \E i \in DOMAIN rows : ~(DOMAIN rows[i] \subseteq Range(fieldnames))
    THEN [written |-> TRUE, raised |-> TRUE, header |-> fieldnames, rows |-> <<>>]
    ELSE [written |-> TRUE, raised |-> FALSE, header |-> fieldnames,
          rows |-> [i \in DOMAIN rows |-> dict_to_row(fieldnames, rows[i])]]

\* BaseHarvester._save_results: the columns are the keys of the first record
save_results(recs) ==
    IF recs = <<>> THEN NoFile
    ELSE dict_writer(keys_of(recs[1]), recs)

\* write_csv: every row is rebuilt over SCHEMA first
write_csv(rows) ==
    dict_writer(SCHEMA,
        [i \in DOMAIN rows |->
            [k \in Range(SCHEMA) |-> IF k \in DOMAIN rows[i] THEN rows[i][k] ELSE ""]])

InitCsv ==
    /\ wfIdle
    /\ rqIdle
    /\ ddIdle
    /\ wmIdle
    /\ cmpIdle
    /\ clIdle
    /\ trIdle
    /\ pf_pc = "idle"
    /\ \/ pf_fn = "_save_results" /\ pf_in \in SeqsUpTo(HarvesterRecords, MaxRows)
       \/ pf_fn = "write_csv" /\ pf_in \in SeqsUpTo(LegacyRows, MaxRows)
    /\ pf_out = <<>>

called(out) ==
    /\ pf_pc = "idle"
    /\ pf_out' = out
    /\ pf_pc' = "done"
    /\ UNCHANGED <<pf_fn, pf_in>>
    /\ UNCHANGED <<wfVars, envVars, rqVars, ddVars, wmVars, cmpVars, clVars, trVars>>

SaveResults == pf_fn = "_save_results" /\ called(save_results(pf_in))

WriteCsv == pf_fn = "write_csv" /\ called(write_csv(pf_in))

NextCsv == SaveResults \/ WriteCsv

SpecCsv == InitCsv /\ [][NextCsv]_vars

(***************************************************************************)
(* Submissions returned by several queries (specification SpecDedup):      *)
(* harvest_submissions of src/scripts/legacy/harvesternew.py and           *)
(* RedditHarvester._harvest_subreddit with its modes.  A listing is what   *)
(* one query (keyword x subreddit, or mode x query x time filter) returns; *)
(* the output is the sequence of the ids of the submission records.        *)
(***************************************************************************)
MaxQueries == 2
MaxListing == 2

PostIds == {"p1", "p2"}

\* ok: the submission passes the filters of the path (title and score in
\* the legacy script, _should_process_post and _process_post in the harvester)
Posts == [id : PostIds, ok : BOOLEAN]

Listings ==
    {l \in SeqsUpTo(Posts, MaxListing) :
        \A i, j \in DOMAIN l : i # j => l[i].id # l[j].id}

RECURSIVE submissions_loop(_, _, _)
\* the loop over the candidates with the set seen_ids
submissions_loop(candidates, seen_ids, rows) ==
    IF candidates = <<>> THEN rows
    ELSE LET submission == Head(candidates)
         IN  IF ~submission.ok \/ submission.id \in seen_ids
             THEN submissions_loop(Tail(candidates), seen_ids, rows)
             ELSE submissions_loop(Tail(candidates),
                                   seen_ids \cup {submission.id},
                                   Append(rows, submission.id))

harvest_submissions(listings) == submissions_loop(Flatten(listings), {}, <<>>)

\* _harvest_mode: every post that passes is appended each time it is returned
harvest_mode(posts) ==
    LET passed == SelectSeq(posts, LAMBDA post : post.ok)
    IN  [i \in DOMAIN passed |-> passed[i].id]

\* _harvest_subreddit: results.extend(mode_results) for every mode
harvest_subreddit(listings) ==
    Flatten([i \in DOMAIN listings |-> harvest_mode(listings[i])])

InitDedup ==
    /\ wfIdle
    /\ rqIdle
    /\ ddIdle
    /\ wmIdle
    /\ cmpIdle
    /\ clIdle
    /\ trIdle
    /\ pf_pc = "idle"
    /\ pf_fn \in {"harvest_submissions", "_harvest_subreddit"}
    /\ pf_in \in SeqsUpTo(Listings, MaxQueries)
    /\ pf_out = <<>>

HarvestSubmissions ==
    pf_fn = "harvest_submissions" /\ called(harvest_submissions(pf_in))

HarvestSubreddit ==
    pf_fn = "_harvest_subreddit" /\ called(harvest_subreddit(pf_in))

NextDedup == HarvestSubmissions \/ HarvestSubreddit

SpecDedup == InitDedup /\ [][NextDedup]_vars

(***************************************************************************)
(* The per-descriptor caps (specification SpecCap):                        *)
(* WebHarvester._harvest_forum_page, _harvest_usenet_group of              *)
(* src/harvest_usenet.py and _harvest_stackexchange_site of                *)
(* src/scripts/legacy/harvesternew.py.  The input is the cap and what the  *)
(* page or the API returns; the output is the sequence of records, each    *)
(* named by its kind.  For the two retrying functions the content is that  *)
(* of the attempt that gets a response.                                    *)
(***************************************************************************)
MaxCap == 2
MaxItems == 3

\* answer_rows[:3]
AnswerSlice == 3

Min(a, b) == IF a <= b THEN a ELSE b

\* seq[:n] for n >= 0
Slice(seq, n) == SubSeq(seq, 1, Min(n, Len(seq)))

Repeat(x, n) == [i \in 1..n |-> x]

\* a thread or post is TRUE when it has content, is long enough and the
\* classifier accepts it
harvest_forum_page(limit, threads) ==
    LET kept == SelectSeq(Slice(threads, limit), LAMBDA t : t)
    IN  Repeat("thread", Len(kept))

RECURSIVE usenet_posts(_, _, _)
\* for post in posts: if len(rows) >= max_posts: break
usenet_posts(max_posts, posts, rows) ==
    IF posts = <<>> \/ Len(rows) >= max_posts THEN rows
    ELSE usenet_posts(max_posts, Tail(posts),
                      IF Head(posts) THEN Append(rows, "post") ELSE rows)

RECURSIVE usenet_keywords(_, _, _)
\* for keyword in search_keywords: if len(rows) >= max_posts: break
usenet_keywords(max_posts, found, rows) ==
    IF found = <<>> \/ Len(rows) >= max_posts THEN rows
    ELSE usenet_keywords(max_posts, Tail(found),
                         usenet_posts(max_posts, Head(found), rows))

harvest_usenet_group(max_posts, found) == usenet_keywords(max_posts, found, <<>>)

RECURSIVE stackexchange_items(_, _, _, _)
\* the loop over data["items"] with its counter
stackexchange_items(limit_per_site, items, count, rows) ==
    IF items = <<>> \/ count >= limit_per_site THEN rows
    ELSE LET item == Head(items)
             q_rows == IF item.eligible /\ item.tacit THEN <<"question">> ELSE <<>>
             count1 == count + Len(q_rows)
             a_rows == IF item.eligible /\ count1 < limit_per_site
                       THEN Repeat("answer", Min(item.answers, AnswerSlice))
                       ELSE <<>>
         IN  stackexchange_items(limit_per_site, Tail(items),
                                 count1 + Len(a_rows), rows \o q_rows \o a_rows)

harvest_stackexchange_site(limit_per_site, items) ==
    stackexchange_items(limit_per_site, items, 0, <<>>)

\* eligible: answer_count > 0 and score >= min_score; tacit: the classifier
\* accepts the question; answers: the rows _harvest_stackexchange_answers returns
StackItems == [eligible : BOOLEAN, tacit : BOOLEAN, answers : 0..(AnswerSlice + 1)]

InitCap ==
    /\ wfIdle
    /\ rqIdle
    /\ ddIdle
    /\ wmIdle
    /\ cmpIdle
    /\ clIdle
    /\ trIdle
    /\ pf_pc = "idle"
    /\ \E cap \in 0..MaxCap :
        \/ /\ pf_fn = "_harvest_forum_page"
           /\ \E threads \in SeqsUpTo(BOOLEAN, MaxItems) :
                pf_in = [cap |-> cap, content |-> threads]
        \/ /\ pf_fn = "_harvest_usenet_group"
           /\ \E found \in SeqsUpTo(SeqsUpTo(BOOLEAN, MaxItems), MaxQueries) :
                pf_in = [cap |-> cap, content |-> found]
        \/ /\ pf_fn = "_harvest_stackexchange_site"
           /\ \E items \in SeqsUpTo(StackItems, MaxItems) :
                pf_in = [cap |-> cap, content |-> items]
    /\ pf_out = <<>>

HarvestForumPage ==
    /\ pf_fn = "_harvest_forum_page"
    /\ called(harvest_forum_page(pf_in.cap, pf_in.content))

HarvestUsenetGroup ==
    /\ pf_fn = "_harvest_usenet_group"
    /\ called(harvest_usenet_group(pf_in.cap, pf_in.content))

HarvestStackexchangeSite ==
    /\ pf_fn = "_harvest_stackexchange_site"
    /\ called(harvest_stackexchange_site(pf_in.cap, pf_in.content))

NextCap == HarvestForumPage \/ HarvestUsenetGroup \/ HarvestStackexchangeSite

SpecCap == InitCap /\ [][NextCap]_vars

(***************************************************************************)
(* Expanding the replies of a comment (specification SpecTree):            *)
(* RedditHarvester._harvest_comments_enhanced and _harvest_child_comments. *)
(* The call stack is explicit: a frame is one activation, of the loop over *)
(* the top-level comments (level 0) or of _harvest_child_comments for the  *)
(* replies at child level `level`.  tr_seen is the trace of the comments   *)
(* examined and of the values returned.  The comment objects answer        *)
(* without raising.                                                        *)
(***************************************************************************)
MaxDepth == 4
MaxChildLimit == 3
MaxTop == 2
MaxWidth == 3
MaxHeight == 2

\* a post: `tops` comments in post.comments[:top_level_limit], every comment
\* above level `height` has `width` replies, and the comment at position
\* `skip` of every list fails _should_process_comment (0: none fails)
CommentTrees == [tops : 1..MaxTop, width : 0..MaxWidth, height : 0..MaxHeight,
                 skip : 0..1]

\* len(parent.replies) for a parent at the given level
reply_count(tree, parent_level) == IF parent_level < tree.height THEN tree.width ELSE 0

should_process_comment(tree, index) == tree.skip = 0 \/ index # tree.skip

\* the limit handed to the next level: limit // 2
next_limit_mut(limit) == limit

next_limit(limit) == limit \div 2

\* the depth handed to the next level: depth - 1
next_depth(depth) == depth - 1

Frame(level, depth, limit, count) ==
    [level |-> level, depth |-> depth, limit |-> limit,
     n |-> IF limit <= 0 THEN 0 ELSE Min(limit, count), idx |-> 1, recs |-> 0]

Event(kind, f, n) ==
    [kind |-> kind, level |-> f.level, depth |-> f.depth, limit |-> f.limit, n |-> n]

\* if depth <= 0 or limit <= 0: return results
guard_returns(f) == f.level >= 1 /\ (f.depth <= 0 \/ f.limit <= 0)

TopFrame == tr_stack[Len(tr_stack)]

trUnchanged == UNCHANGED <<wfVars, envVars, rqVars, ddVars, wmVars, cmpVars, clVars, pfVars>>

InitTree ==
    /\ wfIdle
    /\ rqIdle
    /\ ddIdle
    /\ wmIdle
    /\ cmpIdle
    /\ clIdle
    /\ pfIdle
    /\ tr_pc = "idle"
    /\ tr_cfg \in [entry : {"_harvest_comments_enhanced", "_harvest_child_comments"},
                   max_depth : 0..MaxDepth, child_limit : 0..MaxChildLimit,
                   tree : CommentTrees]
    /\ tr_stack = <<>>
    /\ tr_seen = <<>>

\* _harvest_comments_enhanced is called for a post
HarvestCommentsEnhanced ==
    /\ tr_pc = "idle"
    /\ tr_cfg.entry = "_harvest_comments_enhanced"
    /\ tr_stack' = <<Frame(0, tr_cfg.max_depth, tr_cfg.tree.tops, tr_cfg.tree.tops)>>
    /\ tr_pc' = "run"
    /\ UNCHANGED <<tr_cfg, tr_seen>>
    /\ trUnchanged

\* _harvest_child_comments is called for one comment with depth = max_depth - 1
HarvestChildComments ==
    /\ tr_pc = "idle"
    /\ tr_cfg.entry = "_harvest_child_comments"
    /\ tr_stack' = <<Frame(1, next_depth(tr_cfg.max_depth), tr_cfg.child_limit,
                           reply_count(tr_cfg.tree, 0))>>
    /\ tr_pc' = "run"
    /\ UNCHANGED <<tr_cfg, tr_seen>>
    /\ trUnchanged

\* the value of the frame on top goes to its caller
pop(kind, value) ==
    /\ tr_seen' = Append(tr_seen, Event(kind, TopFrame, value))
    /\ IF Len(tr_stack) = 1
       THEN /\ tr_stack' = <<>>
            /\ tr_pc' = "done"
       ELSE LET caller == tr_stack[Len(tr_stack) - 1]
            IN  /\ tr_stack' = Append(SubSeq(tr_stack, 1, Len(tr_stack) - 2),
                                      [caller EXCEPT !.recs = @ + value])
                /\ tr_pc' = "run"
    /\ UNCHANGED tr_cfg
    /\ trUnchanged

\* the test at the head of _harvest_child_comments
GuardReturns ==
    /\ tr_pc = "run"
    /\ tr_stack # <<>>
    /\ guard_returns(TopFrame)
    /\ pop("return", 0)

\* one iteration of a loop: the comment is examined, and when it passes and
\* the depth allows, _harvest_child_comments is called for its replies
examine(recurse, depth, limit) ==
    LET f == TopFrame
        passes == should_process_comment(tr_cfg.tree, f.idx)
        f1 == [f EXCEPT !.idx = @ + 1, !.recs = IF passes THEN @ + 1 ELSE @]
        rest == SubSeq(tr_stack, 1, Len(tr_stack) - 1)
    IN  /\ tr_pc = "run"
        /\ ~guard_returns(f)
        /\ f.idx <= f.n
        /\ tr_seen' = Append(tr_seen, Event("examine", f, f.idx))
        /\ tr_stack' =
             IF passes /\ recurse
             THEN rest \o <<f1, Frame(f.level + 1, depth, limit,
                                      reply_count(tr_cfg.tree, f.level))>>
             ELSE Append(rest, f1)
        /\ UNCHANGED <<tr_pc, tr_cfg>>
        /\ trUnchanged

\* for comment in post.comments[:top_level_limit]
ExamineComment ==
    /\ tr_stack # <<>>
    /\ TopFrame.level = 0
    /\ examine(tr_cfg.max_depth > 1, next_depth(tr_cfg.max_depth), tr_cfg.child_limit)

\* for reply in parent_comment.replies[:limit]
ExamineReply ==
    /\ tr_stack # <<>>
    /\ TopFrame.level >= 1
    /\ examine(TopFrame.depth > 1, next_depth(TopFrame.depth), next_limit(TopFrame.limit))

\* the loop is over: return results
LoopReturns ==
    /\ tr_pc = "run"
    /\ tr_stack # <<>>
    /\ ~guard_returns(TopFrame)
    /\ TopFrame.idx > TopFrame.n
    /\ pop("return", TopFrame.recs)

NextTree ==
    \/ HarvestCommentsEnhanced
    \/ HarvestChildComments
    \/ GuardReturns
    \/ ExamineComment
    \/ ExamineReply
    \/ LoopReturns

SpecTree == InitTree /\ [][NextTree]_vars

\* a call that has started runs on
SpecTreeFair == SpecTree /\ WF_vars(NextTree)

(***************************************************************************)
(* Properties of run_workflow (specification Spec)                         *)
(***************************************************************************)
Phases == {"Idle", "CheckingDuplicates", "Aborted", "Harvesting", "Aggregating",
           "PersistingLog", "Done"}

\* the transitions of the run state machine; the last two start the next run
PhaseOrder ==
    {<<"Idle", "CheckingDuplicates">>, <<"CheckingDuplicates", "Aborted">>,
     <<"CheckingDuplicates", "Harvesting">>, <<"Harvesting", "Aggregating">>,
     <<"Aggregating", "PersistingLog">>, <<"PersistingLog", "Done">>,
     <<"Done", "Idle">>, <<"Aborted", "Idle">>}


EntriesOf(f) == SelectSeq(descLog, LAMBDA e : e.f = f)

\* what the finished descriptors of family f returned, concatenated in order
Contribution(f) == Flatten([i \in DOMAIN EntriesOf(f) |-> EntriesOf(f)[i].recs])

\* the number of records in a results dict, counted record by record
RecordCount(res) ==
    Cardinality(UNION {{<<f, i>> : i \in DOMAIN res[f]} : f \in DOMAIN res})

C1_Step ==
    /\ pc' # pc => <<pc, pc'>> \in PhaseOrder
    /\ run' = run =>
         /\ calls' # calls => pc = "Harvesting" /\ checked /\ ~prompting
         /\ (rawWrites' # rawWrites \/ (pc' # pc /\ pc' = "PersistingLog")) =>
               /\ pc = "Aggregating"
               /\ desc = 0
               /\ \A f \in Range(harvesters) : calls[f] = 1 /\ f \in DOMAIN results
         /\ (history' # history \/ appended' # appended) =>
               pc = "PersistingLog" /\ appended = 0
         /\ checked => checked' /\ duplicates' = duplicates
         /\ \A f \in DOMAIN calls : calls'[f] <= 1

\* C1: every run follows Idle -> CheckingDuplicates -> (Aborted | Harvesting) ->
\* Aggregating -> PersistingLog -> Done: harvest() is called only after the
\* duplicate check returned, the raw data is saved only after every initialized
\* family's harvest() was called once and has finished, the history is written
\* only in PersistingLog and once, and the duplicate check is not repeated.
C1_Order == [][C1_Step]_vars

C1_Witness ==
    /\ pc = "Done"
    /\ duplicates # <<>>
    /\ Len(harvesters) >= 2
    /\ rawWrites # {}

Declined == choice \in {<<"2">>, <<"3">>}

\* C2: an operator who answers 2 or 3 at the duplicate prompt ends the run in
\* Aborted, and an aborted run has called no harvest(), harvested no descriptor,
\* written no raw file, returned the empty dict and left the history as it was.
C2_DeclineAborts ==
    /\ Declined => pc = "Aborted"
    /\ pc = "Aborted" =>
         /\ Declined
         /\ duplicates # <<>>
         /\ calls = NoCalls
         /\ descLog = <<>>
         /\ results = EmptyDict
         /\ rawWrites = {}
         /\ ret = [returned |-> TRUE, value |-> EmptyDict]
         /\ history = histAtStart
         /\ appended = 0

C2_Witness ==
    /\ pc = "Aborted"
    /\ choice = <<"3">>
    /\ Len(history) >= 1

C3_Step ==
    /\ (pc = "CheckingDuplicates" /\ pc' = "Harvesting") =>
         IF duplicates' # <<>>
         THEN prompting /\ choice' = <<"1">>
         ELSE ~prompting /\ ~checked /\ checked'
    /\ (pc = "CheckingDuplicates" /\ pc' = "Aborted") =>
         prompting /\ duplicates # <<>> /\ choice' \in {<<"2">>, <<"3">>}
    /\ (prompting /\ choice' \notin {<<"1">>, <<"2">>, <<"3">>}) =>
         /\ pc' = "CheckingDuplicates"
         /\ prompting'
         /\ calls' = calls
         /\ ret' = ret
    /\ (~checked /\ checked' /\ duplicates' # <<>>) =>
         prompting' /\ pc' = "CheckingDuplicates"

\* C3: when the duplicate check flags at least one historical run, the run waits
\* at the prompt; it enters Harvesting only on the answer 1 and Aborted only on
\* 2 or 3, any other answer leaves it at the prompt with no harvest() called and
\* nothing returned; it enters Harvesting without a prompt only when no run was
\* flagged.
C3_OperatorDecides == [][C3_Step]_vars

C3_Witness ==
    /\ pc = "Harvesting"
    /\ duplicates # <<>>
    /\ choice = <<"1">>

\* C4: the history stored before a run is a prefix of the history stored at any
\* later point of that run (the log is append-only).
C4_AppendOnly == IsPrefix(histAtStart, history)

Fruitless(e) == e.raised \/ (e.pages > 0 /\ e.failedPages = e.pages)

NumFailures == Cardinality({i \in DOMAIN Outcomes : IsTransportFailure(Outcomes[i])})

Num429 == Cardinality({i \in DOMAIN Outcomes :
                          Outcomes[i].kind = "response" /\ Outcomes[i].status = 429})

\* only successes and transport failures so far
PureTransport ==
    \A i \in DOMAIN Outcomes : IsTransportFailure(Outcomes[i]) \/ IsSuccess(Outcomes[i])

\* 1, 2, 4, ...: the first n backoff sleeps
Doubling(n) == [k \in 1..n |-> 2 ^ (k - 1)]

Kinds == [i \in DOMAIN Outcomes |-> Outcomes[i].kind]

\* C8: with timeouts and connection errors only, requests go on until one
\* succeeds or `retries` of them have failed; the k-th failure (k = 0, 1, ...)
\* that is not the last is followed at once by a sleep of 2^k seconds; a success
\* is returned once and ends the call; after `retries` failures the call raises
\* HarvesterError with no sleep after the last failure and no response.
C8_TransportRetry ==
    (rq_pc # "idle" /\ PureTransport) =>
      /\ Len(Outcomes) <= retries
      /\ \A i \in DOMAIN events :
            (events[i].ev = "sleep") =>
               i > 1 /\ events[i - 1].ev = "request" /\ IsTransportFailure(events[i - 1].o)
      /\ rq_pc = "loop" =>
            /\ NumFailures = Len(Outcomes)
            /\ NumFailures < retries
            /\ Sleeps = Doubling(NumFailures)
            /\ err = "none"
      /\ rq_pc = "returned" =>
            /\ IsSuccess(Last(Outcomes))
            /\ response = Last(Outcomes)
            /\ NumFailures = Len(Outcomes) - 1
            /\ Sleeps = Doubling(NumFailures)
            /\ err = "none"
      /\ rq_pc = "raised" =>
            /\ NumFailures = retries
            /\ Len(Outcomes) = retries
            /\ Sleeps = Doubling(Max(retries - 1, 0))
            /\ err = "HarvesterError"
      /\ Kinds = <<"timeout", "timeout", "response">> =>
            rq_pc = "returned" /\ Sleeps = <<1, 2>>

C8_Witness ==
    /\ rq_pc = "returned"
    /\ retries = 3
    /\ Kinds = <<"timeout", "timeout", "response">>
    /\ Sleeps = <<1, 2>>

\* C9: a 429 is followed by a sleep of its Retry-After (60 without the header) and
\* does not use up the transport-failure budget: a call that saw only 429s and
\* transport failures gives up only after `retries` transport failures.
C9_RateLimitNotCounted ==
    /\ \A i \in DOMAIN events :
          (events[i].ev = "request" /\ events[i].o.kind = "response"
              /\ events[i].o.status = 429) =>
             /\ i < Len(events)
             /\ events[i + 1].ev = "sleep"
             /\ events[i + 1].secs = IF events[i].o.retry_after = <<>> THEN 60
                                     ELSE events[i].o.retry_after[1]
    /\ (rq_pc = "raised" /\ NumFailures + Num429 = Len(Outcomes)) =>
          NumFailures = retries

IsHttpError(o) == o.kind = "response" /\ ~IsSuccess(o) /\ o.status # 429

RatioAtLeast(A, B, pct) ==
    /\ A # {}
    /\ B # {}
    /\ 100 * Cardinality(A \cap B) >= pct * Max(Cardinality(A), Cardinality(B))

DupCurrent == extract_current_search_config(dd_config, 1)

\* the i-th stored record is among the returned ones
Flagged(i) == dd_store[i] \in Range(dd_ret.duplicates)

CurSubs == IF "reddit" \in dd_config.sources THEN Range(dd_config.subreddits) ELSE {}

CurSites == IF "web" \in dd_config.sources
            THEN {st.name : st \in Range(dd_config.sites)} ELSE {}

CurKws == Range(dd_config.keywords)

\* the subreddits of a stored record, in the new or in the legacy format
PrevSubs(r) ==
    IF "sources" \in DOMAIN r /\ "reddit" \in DOMAIN r.sources
    THEN Range(r.sources["reddit"].subreddits)
    ELSE IF "subreddits" \in DOMAIN r THEN Range(r.subreddits)
    ELSE {}

PrevSites(r) ==
    IF "sources" \in DOMAIN r /\ "web" \in DOMAIN r.sources
    THEN {st.name : st \in Range(r.sources["web"].sites)}
    ELSE {}

PrevKws(r) == IF "keywords" \in DOMAIN r THEN Range(r.keywords) ELSE {}

IsLegacy(r) == "sources" \notin DOMAIN r

DupReturned == dd_pc = "returned" /\ dd_readOk

\* C11: with reddit enabled and both subreddit sets non-empty, a stored record in
\* the new or in the legacy format is returned whenever the overlap ratio of the
\* subreddit sets is at least 0.70 (7 of 10 included), the subreddit comparison
\* itself triggers exactly then, and below 0.70 (6 of 10) a record that no site
\* name and no keyword overlap flags is not returned.
C11_SubredditThreshold ==
    (DupReturned /\ "reddit" \in dd_config.sources) =>
       \A i \in DOMAIN dd_store :
          (CurSubs # {} /\ PrevSubs(dd_store[i]) # {}) =>
             /\ RatioAtLeast(CurSubs, PrevSubs(dd_store[i]), 70) => Flagged(i)
             /\ subreddit_overlap(DupCurrent, dd_store[i])
                   <=> RatioAtLeast(CurSubs, PrevSubs(dd_store[i]), 70)
             /\ (/\ ~RatioAtLeast(CurSubs, PrevSubs(dd_store[i]), 70)
                 /\ ~web_site_match(DupCurrent, dd_store[i])
                 /\ ~RatioAtLeast(CurKws, PrevKws(dd_store[i]), 80)) => ~Flagged(i)

\* 7 of 10 subreddits shared with a legacy record, nothing else in common
C11_Witness ==
    /\ DupReturned
    /\ dd_config.sources = {"reddit"}
    /\ Len(dd_store) = 1
    /\ IsLegacy(dd_store[1])
    /\ Cardinality(CurSubs) = 10
    /\ Cardinality(PrevSubs(dd_store[1])) = 7
    /\ Cardinality(CurSubs \cap PrevSubs(dd_store[1])) = 7
    /\ ~RatioAtLeast(CurKws, PrevKws(dd_store[1]), 80)
    /\ Flagged(1)

\* C12: with both keyword sets non-empty and neither the subreddit comparison nor
\* the site-name check triggering, a stored record is returned exactly when the
\* overlap ratio of the keyword sets is at least 0.80 (8 of 10 is, 7 of 10 is not).
C12_KeywordThreshold ==
    DupReturned =>
       \A i \in DOMAIN dd_store :
          (/\ CurKws # {}
           /\ PrevKws(dd_store[i]) # {}
           /\ ~subreddit_overlap(DupCurrent, dd_store[i])
           /\ ~web_site_match(DupCurrent, dd_store[i])) =>
             (Flagged(i) <=> RatioAtLeast(CurKws, PrevKws(dd_store[i]), 80))

\* 8 of 10 keywords shared, on a family whose descriptors are not compared
C12_Witness ==
    /\ DupReturned
    /\ dd_config.sources = {"github"}
    /\ Len(dd_store) = 1
    /\ Cardinality(CurKws) = 10
    /\ Cardinality(PrevKws(dd_store[1])) = 8
    /\ Cardinality(CurKws \cap PrevKws(dd_store[1])) = 8
    /\ Flagged(1)

\* a descriptor dimension (subreddits, web sites) crosses 0.70
DescriptorCross(r) ==
    \/ RatioAtLeast(CurSubs, PrevSubs(r), 70)
    \/ RatioAtLeast(CurSites, PrevSites(r), 70)

\* C13: for every configuration and every stored record, the record is returned
\* exactly when a descriptor-set overlap ratio is at least 0.70 or the keyword-set
\* overlap ratio is at least 0.80.
C13_AnyDimension ==
    DupReturned =>
       \A i \in DOMAIN dd_store :
          Flagged(i) <=> (DescriptorCross(dd_store[i])
                          \/ RatioAtLeast(CurKws, PrevKws(dd_store[i]), 80))

C14_Step ==
    /\ dd_store' = dd_store
    /\ (dd_pc' = "returned" /\ dd_readOk') =>
          /\ dd_ret'.duplicates =
                SelectSeq(dd_store, LAMBDA r : is_duplicate_search(DupCurrent, r))
          /\ dd_ret'.has_duplicates <=> (dd_ret'.duplicates # <<>>)
    /\ (dd_pc' = "returned" /\ ~dd_readOk') =>
          dd_ret' = [has_duplicates |-> FALSE, duplicates |-> <<>>]

\* C14: a call of _check_for_duplicate_searches that could load the history
\* returns the stored records for which _is_duplicate_search is true, all of them
\* and in stored order, reports has_duplicates exactly when there is one, and
\* leaves the stored history as it was; a call that could not load it reports none.
C14_ReturnsAllOverlaps == [][C14_Step]_vars

\* the first and the third of three stored records overlap, the second does not
C14_Witness ==
    /\ DupReturned
    /\ Len(dd_store) = 3
    /\ dd_ret.has_duplicates
    /\ dd_ret.duplicates = <<dd_store[1], dd_store[3]>>
    /\ dd_store[2] \notin Range(dd_ret.duplicates)
    /\ dd_store[1] # dd_store[3]

(***************************************************************************)
(* Missing credentials (specification SpecFair)                            *)
(***************************************************************************)
MissingCredential == "reddit" \in config.sources /\ ~creds

C15_Safe ==
    (MissingCredential /\ pc # "Idle") =>
       /\ "reddit" \notin Range(harvesters)
       /\ Range(harvesters) = config.sources \ {"reddit"}
       /\ calls["reddit"] = 0
       /\ "reddit" \notin DOMAIN results
       /\ \A i \in DOMAIN descLog : descLog[i].f # "reddit"
       /\ pc \in {"Aggregating", "PersistingLog", "Done"} =>
             \A f \in config.sources \ {"reddit"} : calls[f] = 1 /\ f \in DOMAIN results
       /\ pc = "Done" =>
             /\ ret = [returned |-> TRUE, value |-> results]
             /\ \A f \in DOMAIN ret.value :
                   \A i \in DOMAIN ret.value[f] : ret.value[f][i].site # "reddit"

\* C15: when reddit is enabled and a Reddit credential is missing, RedditHarvester is
\* not among the initialized harvesters, its harvest() is never called and the
\* result holds no reddit entry or record, every other enabled family is
\* initialized and harvested once, and a run that has begun harvesting reaches Done.
C15_MissingCredential ==
    /\ []C15_Safe
    /\ []((MissingCredential /\ pc = "Harvesting") => <>(pc = "Done"))

C15_Witness ==
    /\ MissingCredential
    /\ pc = "Done"
    /\ "web" \in DOMAIN results
    /\ results["web"] # <<>>
    /\ calls["web"] = 1

(***************************************************************************)
(* Properties of WorkflowManager.run_workflow (specification SpecWm)       *)
(***************************************************************************)
\* C16: when the operator declined at the duplicate prompt of step 1, the workflow
\* stops at step 1: neither step_2_filter nor step_3_transform is called and the
\* workflow does not complete.
C16_DeclineHaltsWorkflow ==
    pc = "Aborted" =>
       /\ wm_pc \in {"step1", "failed"}
       /\ wm_calls = <<"step_1_harvest">>

(***************************************************************************)
(* Properties of two runs compared (specification SpecCmp)                 *)
(***************************************************************************)
\* why family f has the result it has in scenario sc
Reason(sc, f) ==
    CASE sc[f].kind = "disabled"       -> "disabled"
      [] sc[f].kind = "no_credentials" -> "no credentials"
      [] sc[f].kind = "raise"          -> "all requests failed"
      [] sc[f] = Status("returns", 0)  -> "no matches found"
      [] OTHER                         -> "records"

Attempted(sc, f) == Reason(sc, f) \in {"all requests failed", "no matches found", "records"}

\* what the run reports for family f: its line of the summary, if it has one
FamilyReport(res, f) == IF f \in DOMAIN res THEN <<summary(res)[f]>> ELSE <<>>

\* C17: of two runs that differ in one family only, (i) a run in which the family
\* was attempted and produced nothing reports something else for it than a run in
\* which it was not attempted, and (ii) whenever the family contributed nothing in
\* both runs but for different reasons, the two reports for it differ.
C17_ReasonsDistinguishable ==
    cmp_pc = "done" =>
       \A f \in CmpFamilies :
          /\ (Attempted(cmp_a, f) /\ Reason(cmp_a, f) # "records" /\ ~Attempted(cmp_b, f)) =>
                FamilyReport(cmp_ra, f) # FamilyReport(cmp_rb, f)
          /\ (/\ Reason(cmp_a, f) # Reason(cmp_b, f)
              /\ Reason(cmp_a, f) # "records"
              /\ Reason(cmp_b, f) # "records") =>
                FamilyReport(cmp_ra, f) # FamilyReport(cmp_rb, f)

(***************************************************************************)
(* Properties of the text classifiers (specification SpecCls)              *)
(***************************************************************************)
ClassifierDone == cl_pc = "done"

\* the record-emitting paths and is_high_quality_content
LengthCheckedPaths ==
    {"_process_post", "_process_comment", "_harvest_comments", "_harvest_forum_page",
     "_extract_contractortalk_content", "is_high_quality_content"}

\* the configured minimum of the call, 50 where none is configured
MinimumOfCall == IF cl_min = <<>> THEN 50 ELSE cl_min[1]

\* C18: on every record-emitting path and in is_high_quality_content, a text
\* shorter than the minimum length (the configured minimum, 50 characters where
\* none is configured) is never accepted, whatever keyword or pattern it holds
C18_MinimumLength ==
    (/\ ClassifierDone
     /\ cl_fn \in LengthCheckedPaths
     /\ text_len(cl_text) < MinimumOfCall) => ~cl_out.accept

KeywordGated == {"harvest_usenet", "harvest_podcasts", "harvest_transcript_services"}

\* keyword k occurs in string s when case is ignored, compared letter by letter
occurs_ignoring_case(s, k) ==
    \E i \in 1..(Len(s) - Len(k) + 1) :
        \A j \in 1..Len(k) : lower_char(s[i + j - 1]) = lower_char(k[j])

SomeKeywordPresent ==
    \E i \in DOMAIN cl_keywords : occurs_ignoring_case(cl_text.core, cl_keywords[i])

\* C19: a keyword-required classifier accepts exactly when the text holds a
\* configured keyword as a case-insensitive substring and matches a tacit
\* pattern; with no configured keyword in the text, or an empty keyword list,
\* the text is rejected even if it matches a pattern
C19_KeywordGate ==
    (ClassifierDone /\ cl_fn \in KeywordGated) =>
        /\ cl_out.accept <=> (SomeKeywordPresent /\ has_tacit_pattern(lower(cl_text.core)))
        /\ (cl_keywords = <<>> => ~cl_out.accept)

\* a text that matches a tacit pattern is rejected because none of the
\* configured keywords occurs in it
C19_Witness ==
    /\ ClassifierDone
    /\ cl_fn \in KeywordGated
    /\ cl_keywords # <<>>
    /\ ~SomeKeywordPresent
    /\ has_tacit_pattern(lower(cl_text.core))
    /\ ~cl_out.accept

StrictClassifiers == {"is_high_quality_content", "is_high_quality_devto_content"}

SufficientLength ==
    text_len(cl_text) >= (IF cl_fn = "is_high_quality_content" THEN MinQualityLength
                          ELSE MinDevtoLength)

IndicatorsOfCall ==
    IF cl_fn = "is_high_quality_content" THEN PromisingIndicators ELSE PmIndicators

\* C20: in the strict classifiers a text of sufficient length that contains a
\* phrase of the rejection list is rejected however many indicators it also
\* contains, and the rejection check decides before the indicators are counted
C20_RejectionPrecedence ==
    (/\ ClassifierDone
     /\ cl_fn \in StrictClassifiers
     /\ SufficientLength
     /\ has_obvious_phrase(lower(cl_text.core)))
        => (~cl_out.accept /\ cl_out.by = "rejection")

\* a long enough text with a rejected phrase and enough indicators to pass
C20_Witness ==
    /\ ClassifierDone
    /\ cl_fn \in StrictClassifiers
    /\ SufficientLength
    /\ has_obvious_phrase(lower(cl_text.core))
    /\ indicator_count(IndicatorsOfCall, lower(cl_text.core)) >=
           (IF cl_fn = "is_high_quality_content" THEN MinIndicators ELSE MinPmIndicators)
    /\ ~cl_out.accept

(***************************************************************************)
(* Termination of _make_request (specification SpecReqFair)                *)
(***************************************************************************)
NumRequests == Len(Outcomes)

AllRateLimited == \A i \in DOMAIN Outcomes :
    Outcomes[i].kind = "response" /\ Outcomes[i].status = 429

MakeRequestEnded == rq_pc \in {"returned", "raised"}

C28_Safe ==
    /\ NumRequests <= retries
    /\ (rq_pc = "raised" /\ AllRateLimited) =>
          (err = "HarvesterError" /\ NumRequests = retries)
    /\ (rq_pc = "returned") => IsSuccess(response)

\* C28: for every sequence of per-attempt outcomes _make_request ends, by
\* returning a response or by raising, after at most `retries` requests; a
\* server that answers 429 every time gives HarvesterError after `retries`
\* requests
C28_BoundedRetries == []C28_Safe /\ <>MakeRequestEnded

\* every one of the MaxRetries attempts was answered 429 and the call raised
C28_Witness ==
    /\ rq_pc = "raised"
    /\ retries = MaxRetries
    /\ NumRequests = MaxRetries
    /\ AllRateLimited

\* C30: every failure of _make_request is a HarvesterError, and the rate-limit
\* decision of an attempt looks at the response of that attempt: a sleep for a
\* rate limit follows only a request that was itself answered 429
C30_OnlyHarvesterError ==
    /\ (rq_pc = "raised") => err = "HarvesterError"
    /\ \A i \in DOMAIN events :
          (i > 1 /\ events[i].ev = "sleep" /\ events[i - 1].o.kind \notin {"timeout", "connerr"})
              => (events[i - 1].o.kind = "response" /\ events[i - 1].o.status = 429)

(***************************************************************************)
(* A configuration whose root is not a dictionary (specification Spec)     *)
(***************************************************************************)
\* C24: a configuration whose root is not a dictionary is fatal to the run:
\* run_workflow is never entered, so the duplicate check is not made, no
\* harvest() is called, no raw data is written and no record is appended
C24_NonDictRootFatal ==
    root # "dict" =>
        /\ pc = "Idle"
        /\ harvesters = <<>>
        /\ ~checked
        /\ histLoaded = "none"
        /\ \A f \in DOMAIN calls : calls[f] = 0
        /\ rawWrites = {}
        /\ appended = 0
        /\ history = histAtStart
        /\ ~ret.returned

\* the process has exited on a non-dictionary root, after a run that was stored
C24_Witness ==
    /\ root # "dict"
    /\ exitCode = <<1>>
    /\ history # <<>>

(***************************************************************************)
(* A repeated run (specification Spec)                                     *)
(***************************************************************************)
\* the configuration gives the duplicate check something to compare
Detectable(cfg) ==
    \/ cfg.keywords # <<>>
    \/ "reddit" \in cfg.sources /\ cfg.subreddits # <<>>
    \/ "web" \in cfg.sources /\ cfg.sites # <<>>

\* the run before this one had the same configuration and reached Done
RepeatsCompletedRun ==
    /\ pastRuns # <<>>
    /\ root = "dict"
    /\ Last(pastRuns).root = "dict"
    /\ Last(pastRuns).config = config
    /\ Last(pastRuns).ended = "Done"

\* the duplicate check of a repeated run, with the history file read
C29_Step ==
    (/\ ~checked
     /\ checked'
     /\ histLoaded' = "ok"
     /\ RepeatsCompletedRun
     /\ Detectable(config))
        => /\ history # <<>>
           /\ Last(history).timestamp = run - 1
           /\ Last(history) \in Range(duplicates')
           /\ prompting'

\* every flagged record was stored by an earlier run that reached Done
C29_FlaggedRunsCompleted ==
    \A d \in Range(duplicates) :
        /\ d.timestamp \in DOMAIN pastRuns
        /\ pastRuns[d.timestamp].ended = "Done"

C26_ThrottleBetweenFetches ==
    \A i \in DOMAIN netlog :
        (i < Len(netlog) /\ netlog[i] = "fetch") => netlog[i + 1] = "throttle"

(***************************************************************************)
(* Records and the classifier (specification SpecCls)                      *)
(***************************************************************************)
\* the paths of RedditHarvester.harvest and WebHarvester.harvest that emit records
RecordEmittingPaths ==
    {"_process_post", "_process_comment", "_harvest_comments", "_harvest_forum_page",
     "_extract_contractortalk_content"}

\* C25: a text becomes a record of RedditHarvester.harvest or WebHarvester.harvest
\* only if _contains_tacit_knowledge(text, keywords) is true for it, for every
\* subreddit name and comment score
C25_RecordsWereAccepted ==
    (ClassifierDone /\ cl_fn \in RecordEmittingPaths /\ cl_out.accept)
        => base_contains_tacit_knowledge(cl_text, cl_keywords).accept

(***************************************************************************)
(* The columns of the output (specification SpecCsv)                       *)
(***************************************************************************)
\* C21: every file the pipeline writes, through _save_results or write_csv,
\* has exactly the 19 columns of the schema in its header and in every row
C21_SchemaColumns ==
    (pf_pc = "done" /\ pf_out.written) =>
        /\ pf_out.header = SCHEMA
        /\ Len(pf_out.header) = 19
        /\ \A i \in DOMAIN pf_out.rows : Len(pf_out.rows[i]) = 19

(***************************************************************************)
(* One record per submission (specification SpecDedup)                     *)
(***************************************************************************)
\* C22: within one harvest no submission id yields more than one record,
\* however many keywords, modes, queries or time filters return it
C22_OneRecordPerId ==
    pf_pc = "done" =>
        \A i, j \in DOMAIN pf_out : i # j => pf_out[i] # pf_out[j]

(***************************************************************************)
(* The caps bound the output (specification SpecCap)                       *)
(***************************************************************************)
\* C23: whatever the page or the API returns, a forum page, a Usenet group
\* and a StackExchange site each give at most as many records as their cap
C23_CapBoundsOutput ==
    pf_pc = "done" => Len(pf_out) <= pf_in.cap

\* the two functions that do keep to their cap
ForumAndUsenetCapped ==
    (pf_pc = "done" /\ pf_fn # "_harvest_stackexchange_site") =>
        Len(pf_out) <= pf_in.cap

(***************************************************************************)
(* The expansion of replies is bounded (specification SpecTreeFair)        *)
(***************************************************************************)
RECURSIVE Pow2(_)
Pow2(n) == IF n <= 0 THEN 1 ELSE 2 * Pow2(n - 1)

\* floor(child_limit / 2^(j-1)), the cap at child level j
LevelCap(j) == tr_cfg.child_limit \div Pow2(j - 1)

EventBounded(e) ==
    /\ e.level >= 1 =>
        /\ e.depth = tr_cfg.max_depth - e.level
        /\ e.limit = LevelCap(e.level)
    /\ (e.kind = "examine" /\ e.level >= 1) =>
        /\ e.level <= tr_cfg.max_depth - 1
        /\ e.n <= LevelCap(e.level)
        /\ e.depth > 0
        /\ e.limit > 0
    /\ (e.kind = "return" /\ e.level >= 1 /\ (e.depth <= 0 \/ e.limit <= 0)) =>
        e.n = 0

C27_Safe ==
    /\ \A i \in DOMAIN tr_seen : EventBounded(tr_seen[i])
    /\ \A i \in DOMAIN tr_stack : tr_stack[i].level = tr_stack[1].level + i - 1
    /\ Len(tr_stack) <= Max(tr_cfg.max_depth, 1)

ExpansionEnded == tr_pc = "done"

\* C27: at every recursion level the depth is one less and the cap is half
\* (integer division) of the level above, so replies are examined at most
\* max_depth - 1 levels down and at most floor(child_limit / 2^(j-1)) per
\* parent at child level j, a call with depth <= 0 or cap <= 0 returns the
\* empty list at once, and every expansion ends
C27_BoundedExpansion == []C27_Safe /\ <>ExpansionEnded

\* an expansion that ended after examining a reply two levels down, after a
\* call that returned at once because its cap had reached 0, and with more
\* than two records
C27_Witness ==
    /\ tr_pc = "done"
    /\ \E i \in DOMAIN tr_seen :
         tr_seen[i].kind = "examine" /\ tr_seen[i].level = 2 /\ tr_seen[i].n = 1
    /\ \E i \in DOMAIN tr_seen :
         tr_seen[i].kind = "return" /\ tr_seen[i].limit = 0 /\ tr_seen[i].depth > 0
    /\ \E i \in DOMAIN tr_seen :
         tr_seen[i].kind = "return" /\ tr_seen[i].level = 0 /\ tr_seen[i].n > 2

====
